---- MODULE Spec2Model ----
(***************************************************************************)
(* Model of the stream-hud checklist synchronisation engine.               *)
(*                                                                         *)
(* Part 1: ChecklistWebSocketServer (services/checklist-ws, HTTP-capable   *)
(*         variant): the in-memory task list, its mirror file, the         *)
(*         debounced save timer, the chokidar file watcher, the registry   *)
(*         of WebSocket clients and the HTTP control calls.                *)
(* Part 2: TaskManager of the HUD controller: its selection, its socket   *)
(*         and its poll loop.                                              *)
(* Part 3: the overlay agents WSClient and ChecklistDataSource with the    *)
(*         Checklist panel they feed.                                      *)
(*                                                                         *)
(* Sequences are 1-based here; the JavaScript index of items[i] is i-1,    *)
(* so "order = index" reads items[i].order = i-1.                          *)
(***************************************************************************)
EXTENDS Integers, Sequences, FiniteSets, TLC

\* ---------------------------------------------------------------- bounds
\* Largest task list, and size of the pool of task ids.
MaxTasks == 3
\* Number of stimuli (control calls, external file edits, channel
\* connections) in one behaviour.
MaxCalls == 2
\* Largest value of the unix-seconds clock (Date.now()/1000); the server
\* starts one second before it, and files on disk are stamped 1.
MaxClock == 3
\* Number of start() calls made on one overlay agent.
MaxStarts == 2
\* Largest timestamp of a snapshot published by the server.
MaxVersion == 2

\* ------------------------------------------------------- program constants
HTTP_OK == 200
HTTP_BAD_REQUEST == 400
HTTP_UNAUTHORIZED == 401
HTTP_FORBIDDEN == 403
HTTP_NOT_FOUND == 404

Ids == 1..MaxTasks
\* req.body.id / taskId as received: 0 stands for a missing (falsy) value.
NoId == 0
IdInputs == {NoId} \cup Ids
\* The WebSocket channels that may connect to the server.
Chans == {"ws1", "ws2"}
\* selectedTaskId: null is modelled as NoId.
Null == NoId

AuthInputs == {"none", "bad", "good"}
\* req.body.text as received; Trim models String.prototype.trim.
TextInputs == {"", " ", "a", " b"}

Trim(t) ==
  CASE t = " " -> ""
    [] t = " b" -> "b"
    [] OTHER -> t

Min(a, b) == IF a < b THEN a ELSE b
Max(a, b) == IF a > b THEN a ELSE b

\* ------------------------------------------------------------ task lists
\* ChecklistItem {id, text, done, order}
Item(i, t, d, o) == [id |-> i, text |-> t, done |-> d, order |-> o]

IdsOf(items) == {items[i].id : i \in 1..Len(items)}

\* Array.prototype.findIndex(item => item.id === id), 1-based; 0 for -1.
FindIndex(items, id) ==
  IF \E i \in 1..Len(items) : items[i].id = id
  THEN CHOOSE i \in 1..Len(items) :
         /\ items[i].id = id
         /\ \A j \in 1..(i - 1) : items[j].id # id
  ELSE 0

\* items.splice(i-1, 1)
RemoveAt(items, i) ==
  [j \in 1..(Len(items) - 1) |-> IF j < i THEN items[j] ELSE items[j + 1]]

\* items.splice(i-1, 0, task)
InsertAt(items, i, task) ==
  [j \in 1..(Len(items) + 1) |->
     IF j < i THEN items[j] ELSE IF j = i THEN task ELSE items[j - 1]]

\* items.forEach((item, index) => { item.order = index })
Renumber(items) ==
  [j \in 1..Len(items) |-> [items[j] EXCEPT !.order = j - 1]]

\* toggleTaskById: task.done = !task.done
toggleItems(items, id) ==
  LET i == FindIndex(items, id)
  IN  [items EXCEPT ![i].done = ~items[i].done]

\* resetAllTasks: item.done = false for every item
resetItems(items) ==
  [j \in 1..Len(items) |-> [items[j] EXCEPT !.done = FALSE]]

\* addTask: push {id, text, done:false, order: items.length}
addItems(items, id, text) ==
  Append(items, Item(id, text, FALSE, Len(items)))

\* Mutant of deleteItems: the remaining tasks keep their order values.
deleteItemsKeepsOrder(items, id) ==
  RemoveAt(items, FindIndex(items, id))

\* deleteTask: splice(taskIndex, 1) then renumber
deleteItems(items, id) ==
  Renumber(RemoveAt(items, FindIndex(items, id)))

\* editTask: task.text = newText
editItems(items, id, text) ==
  LET i == FindIndex(items, id)
  IN  [items EXCEPT ![i].text = text]

\* Mutant of moveUpItems: the first task stays where it is (no wrap-around).
moveUpItemsNoWrap(items, id) ==
  LET i == FindIndex(items, id)
  IN  IF i = 1
      THEN items
      ELSE [items EXCEPT ![i] = [items[i - 1] EXCEPT !.order = i - 1],
                         ![i - 1] = [items[i] EXCEPT !.order = i - 2]]

\* moveTaskUp on a present id (i = FindIndex > 0)
moveUpItems(items, id) ==
  LET i == FindIndex(items, id)
  IN  IF i = 1
      THEN Renumber(Append(RemoveAt(items, 1), items[1]))
      ELSE [items EXCEPT ![i] = [items[i - 1] EXCEPT !.order = i - 1],
                         ![i - 1] = [items[i] EXCEPT !.order = i - 2]]

\* moveTaskDown on a present id
moveDownItems(items, id) ==
  LET i == FindIndex(items, id)
  IN  IF i = Len(items)
      THEN Renumber(InsertAt(RemoveAt(items, i), 1, items[i]))
      ELSE [items EXCEPT ![i] = [items[i + 1] EXCEPT !.order = i - 1],
                         ![i + 1] = [items[i] EXCEPT !.order = i]]

\* Math.max(0, Math.min(targetPosition, items.length - 1)), 0-based
clampedPosition(items, target) ==
  Max(0, Min(target, Len(items) - 1))

\* moveTaskToPosition on a present id whose index differs from the target
moveToPositionItems(items, id, target) ==
  LET i == FindIndex(items, id)
      c == clampedPosition(items, target)
  IN  Renumber(InsertAt(RemoveAt(items, i), c + 1, items[i]))


\* ================================================================ state
VARIABLES
  lastData,        \* this.lastData: [has, items, ts]; has = FALSE models null
  selectedTaskId,  \* this.selectedTaskId (Null or a task id)
  saveTimeout,     \* this.saveTimeout is non-null
  timers,          \* number of live setTimeout save timers in the event loop
  tasksFile,       \* the mirror file configs/tasks.json: [kind, items, ts]
  fsEvent,         \* a chokidar 'change' event is waiting to be delivered
  clients,         \* this.clients: the registry of channels
  chan,            \* per channel: "free", "open" (readyState OPEN) or
                   \* "closing" (not OPEN, its 'close' event not yet handled)
  wire,            \* the last message put on a socket: [kind, items, sel, to]
  pushes,          \* per channel: messages sent to it since the last stimulus
  now,             \* Math.floor(Date.now() / 1000)
  last,            \* the last stimulus and its answer: [op, status]
  calls,           \* number of stimuli so far
  tasks,           \* TaskManager.tasks, sorted as updateTasks left it
  selectedIndex,   \* TaskManager.selectedIndex (0-based)
  selectRequest,   \* api.selectTask as called last: [taskId, sent]; taskId
                   \* is Null for null; history: sent tells that the last
                   \* step of the TaskManager made the call
  tmPrev,          \* history: the task selected when the last updateTasks
                   \* began and the ids of the list it replaced,
                   \* [id, index, ids]; cleared by a selection key
  applied,         \* history: non-empty lists applied by updateTasks so
                   \* far: 0, 1, or 2 for more than one
  manager,         \* TaskManager's connection fields: [ws, isConnected,
                   \* pollInterval], each TRUE when the field is set
  managerEnv,      \* what surrounds it: [socket, timeout, promise, phase]
  wsClient,        \* the fields of a WSClient (overlay agent)
  wsClientEnv,     \* its socket, timers and requests in flight
  dataSource,      \* the fields of a ChecklistDataSource (overlay agent)
  dataSourceEnv,   \* its socket, timers and requests in flight
  overlay,         \* the Checklist panel fed by onData: [lastUpdate]
  feed             \* the timestamp of the server's current snapshot

serverVars ==
  <<lastData, selectedTaskId, saveTimeout, timers, tasksFile, fsEvent,
    clients, chan, wire, pushes, now, last, calls>>

tmVars == <<tasks, selectedIndex, selectRequest, tmPrev, applied>>

agentVars ==
  <<manager, managerEnv, wsClient, wsClientEnv, dataSource, dataSourceEnv,
    overlay, feed>>

vars == <<serverVars, tmVars, agentVars>>

\* ---------------------------------------------------------- mirror file
\* The file is absent, present but not loadable (unreadable, not JSON, or
\* without an items array), or a ChecklistData document.  ts = 0 models a
\* missing (falsy) ts field.
AbsentFile == [kind |-> "absent", items |-> <<>>, ts |-> 0]
InvalidFile == [kind |-> "invalid", items |-> <<>>, ts |-> 0]
DataFile(items, ts) == [kind |-> "data", items |-> items, ts |-> ts]

\* File contents an editor may leave behind: n tasks with ids 1..n, either
\* with order = index or with the order values rotated by one (still the
\* set 0..n-1, but not aligned with the array positions).
FileTasks(n, rot) ==
  [i \in 1..n |-> Item(i, "a", FALSE, IF rot THEN i % n ELSE i - 1)]

\* The aligned files carry ts = 1, the rotated ones no ts.
Files ==
  {AbsentFile, InvalidFile} \cup
  {DataFile(FileTasks(n, rot), IF rot THEN 0 ELSE 1) :
     n \in 0..MaxTasks, rot \in BOOLEAN}

NoData == [has |-> FALSE, items |-> <<>>, ts |-> 0]

\* loadTasksFile: null unless the file exists, parses and has an items
\* array; a missing ts is synthesized from the clock.
loadTasksFile ==
  IF tasksFile.kind = "data"
  THEN [has |-> TRUE, items |-> tasksFile.items,
        ts |-> IF tasksFile.ts = 0 THEN now ELSE tasksFile.ts]
  ELSE NoData

\* writeFileSync may succeed, throw before touching the file, or throw
\* after truncating it.
WriteOutcomes == {"written", "failed", "torn"}

\* saveTasksFile with lastData already holding the list `items`:
\* lastData.ts is refreshed before the write is attempted.
savedData(items) == [has |-> TRUE, items |-> items, ts |-> now]

writtenFile(items, outcome) ==
  CASE outcome = "written" -> DataFile(items, now)
    [] outcome = "torn" -> InvalidFile
    [] OTHER -> tasksFile

\* chokidar reports 'change' only for a file that existed before and after.
changeSeen(old, new) ==
  old.kind # "absent" /\ new.kind # "absent"

saveTasksFile(items, outcome) ==
  /\ lastData' = savedData(items)
  /\ tasksFile' = writtenFile(items, outcome)
  /\ fsEvent' = (fsEvent \/ (outcome # "failed" /\ tasksFile.kind # "absent"))

\* Mutant of debouncedSaveTimers: the pending timer is not cleared.
debouncedSaveTimersStacked == timers + 1

\* debouncedSave: clearTimeout(pending) then setTimeout(..., 100)
debouncedSaveTimers ==
  (IF saveTimeout THEN timers - 1 ELSE timers) + 1

debouncedSave ==
  /\ timers' = debouncedSaveTimers
  /\ saveTimeout' = TRUE

\* ------------------------------------------------------------- channels
OpenClients == {c \in clients : chan[c] = "open"}
ZeroPushes == [c \in Chans |-> 0]
NoWire == [kind |-> "none", items |-> <<>>, sel |-> Null, to |-> {}]

\* Mutant of fanOut: channels that are not OPEN stay in the registry.
fanOutKeepsClosed(kind, items, sel, thrown, base) ==
  LET delivered == OpenClients \ thrown
  IN  /\ clients' = clients \ thrown
      /\ wire' = IF delivered = {} THEN wire
                 ELSE [kind |-> kind, items |-> items, sel |-> sel,
                       to |-> delivered]
      /\ pushes' = [c \in Chans |->
                      IF c \in delivered THEN base[c] + 1 ELSE base[c]]

\* The send loop shared by broadcastToAll and broadcastSelectionUpdate:
\* every registered channel that is OPEN and whose send does not throw gets
\* the message; the others are removed from the registry afterwards.
fanOut(kind, items, sel, thrown, base) ==
  LET delivered == OpenClients \ thrown
  IN  /\ clients' = delivered
      /\ wire' = IF delivered = {} THEN wire
                 ELSE [kind |-> kind, items |-> items, sel |-> sel,
                       to |-> delivered]
      /\ pushes' = [c \in Chans |->
                      IF c \in delivered THEN base[c] + 1 ELSE base[c]]

\* broadcastToAll(data): nothing at all when the registry is empty.
broadcastToAll(items, thrown, base) ==
  IF clients = {}
  THEN /\ pushes' = base
       /\ UNCHANGED <<clients, wire>>
  ELSE fanOut("tasks_updated", items, selectedTaskId, thrown, base)

\* Mutant of broadcastSelectionUpdate: the payload carries the selection
\* as it was before the call.
broadcastSelectionUpdateStale(sel, thrown, base) ==
  fanOut("snapshot", lastData.items, selectedTaskId, thrown, base)

\* broadcastSelectionUpdate with the new selection `sel`
broadcastSelectionUpdate(sel, thrown, base) ==
  fanOut("snapshot", lastData.items, sel, thrown, base)

\* ------------------------------------------------------ control calls
\* A stimulus and its answer (status 0 when it is not a control call).
Respond(op, status) ==
  /\ calls' = IF calls < MaxCalls THEN calls + 1 ELSE calls
  /\ last' = [op |-> op, status |-> status]
  /\ UNCHANGED <<tmVars, agentVars>>

\* What the environment does during one handler: the outcome of a write of
\* the mirror file, and the channels whose send throws.
Env(outcome, thrown) == [outcome |-> outcome, thrown |-> thrown]

\* Mutant of AnswerOnly: the selection is cleared.
AnswerOnlyAndDeselect(op, status) ==
  /\ Respond(op, status)
  /\ pushes' = ZeroPushes
  /\ selectedTaskId' = Null
  /\ UNCHANGED <<lastData, saveTimeout, timers, tasksFile,
                 fsEvent, clients, chan, wire, now>>

\* A call answered without touching anything.
AnswerOnly(op, status) ==
  /\ Respond(op, status)
  /\ pushes' = ZeroPushes
  /\ UNCHANGED <<lastData, selectedTaskId, saveTimeout, timers, tasksFile,
                 fsEvent, clients, chan, wire, now>>

\* Mutant of authenticateAdmin: the token is not compared.
authenticateAdminAnyToken(auth) ==
  CASE auth = "none" -> HTTP_UNAUTHORIZED
    [] OTHER -> 0

\* authenticateAdmin: 0 stands for next()
authenticateAdmin(auth) ==
  CASE auth = "none" -> HTTP_UNAUTHORIZED
    [] auth = "bad" -> HTTP_FORBIDDEN
    [] OTHER -> 0

\* Mutant of ApplyImmediate: a write that fails undoes the mutation.
ApplyImmediateOrUndo(op, items, e) ==
  LET kept == IF e.outcome = "written" THEN items ELSE lastData.items
  IN  /\ saveTasksFile(kept, e.outcome)
      /\ broadcastToAll(kept, e.thrown, ZeroPushes)
      /\ Respond(op, HTTP_OK)
      /\ UNCHANGED <<selectedTaskId, saveTimeout, timers, chan, now>>

\* A list mutation saved at once: mutate, saveTasksFile, broadcastToAll.
ApplyImmediate(op, items, e) ==
  /\ saveTasksFile(items, e.outcome)
  /\ broadcastToAll(items, e.thrown, ZeroPushes)
  /\ Respond(op, HTTP_OK)
  /\ UNCHANGED <<selectedTaskId, saveTimeout, timers, chan, now>>

\* A reorder: mutate, debouncedSave, broadcastToAll.
ApplyDebounced(op, items, e) ==
  /\ lastData' = [lastData EXCEPT !.items = items]
  /\ debouncedSave
  /\ broadcastToAll(items, e.thrown, ZeroPushes)
  /\ Respond(op, HTTP_OK)
  /\ UNCHANGED <<selectedTaskId, tasksFile, fsEvent, chan, now>>


\* `task_${Date.now()}_${random}`: an id the system has not seen.
FreshIds ==
  Ids \ (IdsOf(lastData.items) \cup IdsOf(tasksFile.items)
           \cup IdsOf(wire.items) \cup {selectedTaskId})

\* !text || typeof text !== 'string' || text.trim().length === 0
badText(text) == Trim(text) = ""

\* items.find(item => !item.done): its index, 0 when there is none
firstIncomplete(items) ==
  IF \E i \in 1..Len(items) : ~items[i].done
  THEN CHOOSE i \in 1..Len(items) :
         /\ ~items[i].done
         /\ \A j \in 1..(i - 1) : items[j].done
  ELSE 0

\* POST /tasks/toggle-next
toggleNextStatus ==
  IF ~lastData.has THEN HTTP_NOT_FOUND
  ELSE IF firstIncomplete(lastData.items) = 0 THEN HTTP_NOT_FOUND
  ELSE HTTP_OK

PostToggleNext(auth, e) ==
  LET st == IF authenticateAdmin(auth) # 0 THEN authenticateAdmin(auth)
            ELSE toggleNextStatus
  IN  IF st # HTTP_OK THEN AnswerOnly("toggle-next", st)
      ELSE ApplyImmediate("toggle-next",
             toggleItems(lastData.items,
                         lastData.items[firstIncomplete(lastData.items)].id),
             e)

\* The checks shared by the calls that name a task: id given, data loaded,
\* task present.
byIdStatus(id) ==
  IF id = NoId THEN HTTP_BAD_REQUEST
  ELSE IF ~lastData.has THEN HTTP_NOT_FOUND
  ELSE IF FindIndex(lastData.items, id) = 0 THEN HTTP_NOT_FOUND
  ELSE HTTP_OK

\* POST /tasks/toggle
PostToggle(auth, id, e) ==
  LET st == IF authenticateAdmin(auth) # 0 THEN authenticateAdmin(auth)
            ELSE byIdStatus(id)
  IN  IF st # HTTP_OK THEN AnswerOnly("toggle", st)
      ELSE ApplyImmediate("toggle", toggleItems(lastData.items, id), e)

\* POST /tasks/reset
resetStatus(confirm) ==
  IF ~confirm THEN HTTP_BAD_REQUEST
  ELSE IF ~lastData.has THEN HTTP_NOT_FOUND
  ELSE HTTP_OK

PostReset(auth, confirm, e) ==
  LET st == IF authenticateAdmin(auth) # 0 THEN authenticateAdmin(auth)
            ELSE resetStatus(confirm)
  IN  IF st # HTTP_OK THEN AnswerOnly("reset", st)
      ELSE ApplyImmediate("reset", resetItems(lastData.items), e)

\* POST /tasks/add
addStatus(text) ==
  IF badText(text) THEN HTTP_BAD_REQUEST
  ELSE IF ~lastData.has THEN HTTP_NOT_FOUND
  ELSE HTTP_OK

PostAdd(auth, text, e) ==
  LET st == IF authenticateAdmin(auth) # 0 THEN authenticateAdmin(auth)
            ELSE addStatus(text)
  IN  IF st # HTTP_OK THEN AnswerOnly("add", st)
      ELSE /\ FreshIds # {}
           /\ LET id == CHOOSE i \in FreshIds : \A j \in FreshIds : i <= j
              IN  ApplyImmediate("add",
                                 addItems(lastData.items, id, Trim(text)), e)

\* POST /tasks/delete
PostDelete(auth, id, e) ==
  LET st == IF authenticateAdmin(auth) # 0 THEN authenticateAdmin(auth)
            ELSE byIdStatus(id)
  IN  IF st # HTTP_OK THEN AnswerOnly("delete", st)
      ELSE ApplyImmediate("delete", deleteItems(lastData.items, id), e)

\* POST /tasks/edit
editStatus(id, text) ==
  IF id = NoId THEN HTTP_BAD_REQUEST
  ELSE IF badText(text) THEN HTTP_BAD_REQUEST
  ELSE byIdStatus(id)

PostEdit(auth, id, text, e) ==
  LET st == IF authenticateAdmin(auth) # 0 THEN authenticateAdmin(auth)
            ELSE editStatus(id, text)
  IN  IF st # HTTP_OK THEN AnswerOnly("edit", st)
      ELSE ApplyImmediate("edit", editItems(lastData.items, id, Trim(text)), e)

\* POST /tasks/select
selectStatus(taskId) ==
  IF ~lastData.has THEN HTTP_NOT_FOUND
  ELSE IF taskId # NoId /\ FindIndex(lastData.items, taskId) = 0
  THEN HTTP_NOT_FOUND
  ELSE HTTP_OK

PostSelect(auth, taskId, e) ==
  LET st == IF authenticateAdmin(auth) # 0 THEN authenticateAdmin(auth)
            ELSE selectStatus(taskId)
  IN  IF st # HTTP_OK THEN AnswerOnly("select", st)
      ELSE /\ selectedTaskId' = taskId
           /\ broadcastSelectionUpdate(taskId, e.thrown, ZeroPushes)
           /\ Respond("select", HTTP_OK)
           /\ UNCHANGED <<lastData, saveTimeout, timers, tasksFile,
                          fsEvent, chan, now>>

\* moveTaskUp / moveTaskDown / moveTaskToPosition return false
moveFails(id) ==
  ~lastData.has \/ Len(lastData.items) = 0 \/ FindIndex(lastData.items, id) = 0

moveStatus(id) ==
  IF id = NoId THEN HTTP_BAD_REQUEST
  ELSE IF ~lastData.has THEN HTTP_NOT_FOUND
  ELSE IF moveFails(id) THEN HTTP_NOT_FOUND
  ELSE HTTP_OK

\* POST /tasks/move-up
PostMoveUp(auth, id, e) ==
  LET st == IF authenticateAdmin(auth) # 0 THEN authenticateAdmin(auth)
            ELSE moveStatus(id)
  IN  IF st # HTTP_OK THEN AnswerOnly("move-up", st)
      ELSE ApplyDebounced("move-up", moveUpItems(lastData.items, id), e)

\* POST /tasks/move-down
PostMoveDown(auth, id, e) ==
  LET st == IF authenticateAdmin(auth) # 0 THEN authenticateAdmin(auth)
            ELSE moveStatus(id)
  IN  IF st # HTTP_OK THEN AnswerOnly("move-down", st)
      ELSE ApplyDebounced("move-down", moveDownItems(lastData.items, id), e)

\* POST /tasks/move-to-position; isNum models typeof targetPosition ===
\* 'number'.
moveToPositionStatus(taskId, isNum, target) ==
  IF taskId = NoId THEN HTTP_BAD_REQUEST
  ELSE IF ~isNum \/ target < 0 THEN HTTP_BAD_REQUEST
  ELSE IF ~lastData.has THEN HTTP_NOT_FOUND
  ELSE IF moveFails(taskId) THEN HTTP_NOT_FOUND
  ELSE HTTP_OK

\* Mutant of alreadyThere: the early return is missing.
alreadyThereNever(taskId, target) == FALSE

\* "If already at target position, no need to move"
alreadyThere(taskId, target) ==
  FindIndex(lastData.items, taskId) - 1
    = clampedPosition(lastData.items, target)

PostMoveToPosition(auth, taskId, isNum, target, e) ==
  LET st == IF authenticateAdmin(auth) # 0 THEN authenticateAdmin(auth)
            ELSE moveToPositionStatus(taskId, isNum, target)
  IN  IF st # HTTP_OK THEN AnswerOnly("move-to-position", st)
      ELSE IF alreadyThere(taskId, target)
      THEN AnswerOnly("move-to-position", HTTP_OK)
      ELSE ApplyDebounced("move-to-position",
                          moveToPositionItems(lastData.items, taskId, target),
                          e)

\* GET /tasks: no authenticateAdmin in the route.
GetTasks(auth) ==
  AnswerOnly("get-tasks", IF lastData.has THEN HTTP_OK ELSE HTTP_NOT_FOUND)

\* ------------------------------------------------- events and callbacks
\* Mutant of loadAndBroadcast: a failed load empties the store.
loadAndBroadcastOrForget(thrown) ==
  IF loadTasksFile.has
  THEN /\ lastData' = loadTasksFile
       /\ broadcastToAll(loadTasksFile.items, thrown, pushes)
  ELSE /\ lastData' = NoData
       /\ UNCHANGED <<clients, wire, pushes>>

\* watcher.on('change') -> loadAndBroadcast
loadAndBroadcast(thrown) ==
  IF loadTasksFile.has
  THEN /\ lastData' = loadTasksFile
       /\ broadcastToAll(loadTasksFile.items, thrown, pushes)
  ELSE UNCHANGED <<lastData, clients, wire, pushes>>

\* Mutant of WatcherChange: a reload schedules a save.
WatcherChangeAndSave(e) ==
  /\ fsEvent
  /\ fsEvent' = FALSE
  /\ loadAndBroadcast(e.thrown)
  /\ debouncedSave
  /\ UNCHANGED <<selectedTaskId, tasksFile, chan, now, last, calls,
                 tmVars, agentVars>>

WatcherChange(e) ==
  /\ fsEvent
  /\ fsEvent' = FALSE
  /\ loadAndBroadcast(e.thrown)
  /\ UNCHANGED <<selectedTaskId, saveTimeout, timers, tasksFile, chan, now,
                 last, calls,
                 tmVars, agentVars>>

\* Mutant of SaveTimeoutFires: the timer's callback also broadcasts.
SaveTimeoutFiresAndBroadcasts(e) ==
  /\ timers > 0
  /\ timers' = timers - 1
  /\ saveTimeout' = FALSE
  /\ IF lastData.has
     THEN saveTasksFile(lastData.items, e.outcome)
     ELSE UNCHANGED <<lastData, tasksFile, fsEvent>>
  /\ broadcastToAll(lastData.items, e.thrown, pushes)
  /\ UNCHANGED <<selectedTaskId, chan, now, last, calls, tmVars, agentVars>>

\* The debounce timer's callback: saveTasksFile(); saveTimeout = null
SaveTimeoutFires(e) ==
  /\ timers > 0
  /\ timers' = timers - 1
  /\ saveTimeout' = FALSE
  /\ IF lastData.has
     THEN saveTasksFile(lastData.items, e.outcome)
     ELSE UNCHANGED <<lastData, tasksFile, fsEvent>>
  /\ UNCHANGED <<selectedTaskId, clients, chan, wire, pushes, now, last, calls,
                 tmVars, agentVars>>

\* Somebody else rewrites, touches, removes or creates the mirror file.
ExternalEdit(f) ==
  /\ tasksFile' = f
  /\ fsEvent' = (fsEvent \/ changeSeen(tasksFile, f))
  /\ Respond("external-edit", 0)
  /\ pushes' = ZeroPushes
  /\ UNCHANGED <<lastData, selectedTaskId, saveTimeout, timers, clients,
                 chan, wire, now>>

\* wss.on('connection'): register, then sendToClient(ws, lastData).  The
\* payload is {...lastData, source}; the mirror files of this model carry
\* no selectedTaskId field, so the payload has none.
WsConnection(c, e) ==
  /\ chan[c] = "free"
  /\ chan' = [chan EXCEPT ![c] = "open"]
  /\ Respond("ws-connect", 0)
  /\ IF lastData.has /\ c \notin e.thrown
     THEN /\ clients' = clients \cup {c}
          /\ wire' = [kind |-> "snapshot", items |-> lastData.items,
                      sel |-> Null, to |-> {c}]
          /\ pushes' = [ZeroPushes EXCEPT ![c] = 1]
     ELSE /\ clients' = IF lastData.has THEN clients \ {c}
                        ELSE clients \cup {c}
          /\ pushes' = ZeroPushes
          /\ UNCHANGED wire
  /\ UNCHANGED <<lastData, selectedTaskId, saveTimeout, timers, tasksFile,
                 fsEvent, now>>

\* The socket leaves readyState OPEN (peer went away, network error).
SocketCloses(c) ==
  /\ chan[c] = "open"
  /\ chan' = [chan EXCEPT ![c] = "closing"]
  /\ UNCHANGED <<lastData, selectedTaskId, saveTimeout, timers, tasksFile,
                 fsEvent, clients, wire, pushes, now, last, calls,
                 tmVars, agentVars>>

\* ws.on('close') / ws.on('error'): this.clients.delete(ws)
WsOnClose(c) ==
  /\ chan[c] = "closing"
  /\ chan' = [chan EXCEPT ![c] = "free"]
  /\ clients' = clients \ {c}
  /\ UNCHANGED <<lastData, selectedTaskId, saveTimeout, timers, tasksFile,
                 fsEvent, wire, pushes, now, last, calls,
                 tmVars, agentVars>>

\* Mutant of Stop: the pending timer is cleared and nothing is written.
StopDropsSave(e) ==
  /\ timers' = IF saveTimeout THEN timers - 1 ELSE timers
  /\ saveTimeout' = FALSE
  /\ chan' = [c \in Chans |->
               IF c \in clients /\ chan[c] = "open" THEN "closing"
               ELSE chan[c]]
  /\ clients' = {}
  /\ pushes' = ZeroPushes
  /\ Respond("stop", 0)
  /\ UNCHANGED <<lastData, tasksFile, fsEvent, selectedTaskId, wire, now>>

\* stop(): a pending save timer is cleared and saveTasksFile() is called in
\* its place, ws.close() is called on every registered channel that is
\* OPEN, and the registry is cleared.  The process exits afterwards.
Stop(e) ==
  /\ IF saveTimeout
     THEN /\ timers' = timers - 1
          /\ saveTimeout' = FALSE
          /\ IF lastData.has
             THEN saveTasksFile(lastData.items, e.outcome)
             ELSE UNCHANGED <<lastData, tasksFile, fsEvent>>
     ELSE UNCHANGED <<timers, saveTimeout, lastData, tasksFile, fsEvent>>
  /\ chan' = [c \in Chans |->
               IF c \in clients /\ chan[c] = "open" THEN "closing"
               ELSE chan[c]]
  /\ clients' = {}
  /\ pushes' = ZeroPushes
  /\ Respond("stop", 0)
  /\ UNCHANGED <<selectedTaskId, wire, now>>

\* A second passes.
Tick ==
  /\ now < MaxClock
  /\ now' = now + 1
  /\ UNCHANGED <<lastData, selectedTaskId, saveTimeout, timers, tasksFile,
                 fsEvent, clients, chan, wire, pushes, last, calls,
                 tmVars, agentVars>>

\* --------------------------------------------------------- specification
\* The constructor: setupFileWatcher (ignoreInitial), then loadInitialData
\* with no client connected yet.
\* ---------------------------------------------------------------------------
\* TaskManager (apps/hud-controller/src/tasks.ts)
\* ---------------------------------------------------------------------------

\* Task.order is optional: NoOrder stands for undefined.
NoOrder == -1

Task(i, c, o) == [id |-> i, completed |-> c, order |-> o]

\* (a.order || 0)
orderKey(t) == IF t.order = NoOrder THEN 0 ELSE t.order

\* Array.prototype.sort with (a, b) => key(a) - key(b): a stable sort.
insertByOrder(sorted, t) ==
  LET k == Cardinality({i \in 1..Len(sorted) :
                          orderKey(sorted[i]) <= orderKey(t)})
  IN SubSeq(sorted, 1, k) \o <<t>> \o SubSeq(sorted, k + 1, Len(sorted))

RECURSIVE sortByOrder(_)
sortByOrder(ts) ==
  IF ts = <<>> THEN <<>>
  ELSE insertByOrder(sortByOrder(SubSeq(ts, 1, Len(ts) - 1)), ts[Len(ts)])

\* tasks.findIndex(task => task.id === id): 0-based, -1 when absent
findIndexById(ts, id) ==
  LET hits == {i \in 1..Len(ts) : ts[i].id = id}
  IN IF hits = {} THEN -1
     ELSE (CHOOSE i \in hits : \A j \in hits : i <= j) - 1

\* tasks.findIndex(task => !previousTaskIds.has(task.id))
findFirstNew(prev, cur) ==
  LET hits == {i \in 1..Len(cur) :
                 cur[i].id \notin {prev[j].id : j \in 1..Len(prev)}}
  IN IF hits = {} THEN -1
     ELSE (CHOOSE i \in hits : \A j \in hits : i <= j) - 1

\* Mutant of maintainSelection: the lookup by id is left out.
maintainSelectionByIndex(prev, cur, sel) ==
  IF Len(prev) = 0 \/ Len(cur) = 0 THEN 0
  ELSE IF Len(cur) > Len(prev) /\ findFirstNew(prev, cur) # -1
       THEN findFirstNew(prev, cur)
       ELSE Max(0, Min(sel, Len(cur) - 1))

\* Mutant of maintainSelection: a longer list selects its first new task
\* before the lookup by id.
maintainSelectionNewFirst(prev, cur, sel) ==
  IF Len(prev) = 0 \/ Len(cur) = 0 THEN 0
  ELSE IF Len(cur) > Len(prev) /\ findFirstNew(prev, cur) # -1
       THEN findFirstNew(prev, cur)
       ELSE LET byId == IF sel >= 0 /\ sel < Len(prev)
                        THEN findIndexById(cur, prev[sel + 1].id)
                        ELSE -1
            IN IF byId # -1 THEN byId
               ELSE Max(0, Min(sel, Len(cur) - 1))

\* Mutant of maintainSelection: the index is not clamped.
maintainSelectionNoClamp(prev, cur, sel) ==
  IF Len(prev) = 0 \/ Len(cur) = 0 THEN 0
  ELSE LET byId == IF sel >= 0 /\ sel < Len(prev)
                   THEN findIndexById(cur, prev[sel + 1].id)
                   ELSE -1
       IN IF byId # -1 THEN byId
          ELSE IF Len(cur) > Len(prev) /\ findFirstNew(prev, cur) # -1
               THEN findFirstNew(prev, cur)
               ELSE sel

\* maintainSelection: the new selectedIndex
maintainSelection(prev, cur, sel) ==
  IF Len(prev) = 0 \/ Len(cur) = 0 THEN 0
  ELSE LET byId == IF sel >= 0 /\ sel < Len(prev)
                   THEN findIndexById(cur, prev[sel + 1].id)
                   ELSE -1
       IN IF byId # -1 THEN byId
          ELSE IF Len(cur) > Len(prev) /\ findFirstNew(prev, cur) # -1
               THEN findFirstNew(prev, cur)
               ELSE Max(0, Min(sel, Len(cur) - 1))

\* getSelectedTask()?.id || null
selectedId(ts, sel) ==
  IF Len(ts) = 0 \/ sel < 0 \/ sel >= Len(ts) THEN Null ELSE ts[sel + 1].id

NoSelection == [id |-> Null, index |-> -1, ids |-> {}]

\* updateTasks(newTasks), called for a tasks_updated message and for the
\* answer to a poll
updateTasks(newTasks) ==
  /\ tasks' = sortByOrder(newTasks)
  /\ selectedIndex' = maintainSelection(tasks, tasks', selectedIndex)
  /\ tmPrev' = [id |-> selectedId(tasks, selectedIndex),
                index |-> selectedIndex,
                ids |-> {tasks[i].id : i \in 1..Len(tasks)}]
  /\ applied' = IF newTasks = <<>> \/ applied = 2 THEN applied
                ELSE applied + 1
  /\ selectRequest' = [selectRequest EXCEPT !.sent = FALSE]
  /\ UNCHANGED serverVars

\* A task list reaches updateTasks; the connection is left as it is.
UpdateTasks(newTasks) ==
  /\ updateTasks(newTasks)
  /\ UNCHANGED agentVars

\* Mutant of previousIndex: no wrap-around at the first task.
previousIndexNoWrap(i, n) == IF i = 0 THEN 0 ELSE i - 1

\* Mutant of nextIndex: no wrap-around.
nextIndexNoWrap(i, n) == i + 1

\* the index selectNext() moves to on a list of n tasks
nextIndex(i, n) == (i + 1) % n

\* the index selectPrevious() moves to on a list of n tasks
previousIndex(i, n) == IF i = 0 THEN n - 1 ELSE i - 1

\* broadcastSelection(): api.selectTask(getSelectedTask()?.id || null)
broadcastSelection(sel) ==
  [taskId |-> selectedId(tasks, sel), sent |-> TRUE]

\* selectNext()
SelectNext ==
  /\ IF Len(tasks) = 0
     THEN /\ UNCHANGED selectedIndex
          /\ selectRequest' = [selectRequest EXCEPT !.sent = FALSE]
     ELSE /\ selectedIndex' = nextIndex(selectedIndex, Len(tasks))
          /\ selectRequest' = broadcastSelection(selectedIndex')
  /\ tmPrev' = NoSelection
  /\ UNCHANGED <<tasks, applied, serverVars, agentVars>>

\* selectPrevious()
SelectPrevious ==
  /\ IF Len(tasks) = 0
     THEN /\ UNCHANGED selectedIndex
          /\ selectRequest' = [selectRequest EXCEPT !.sent = FALSE]
     ELSE /\ selectedIndex' = previousIndex(selectedIndex, Len(tasks))
          /\ selectRequest' = broadcastSelection(selectedIndex')
  /\ tmPrev' = NoSelection
  /\ UNCHANGED <<tasks, applied, serverVars, agentVars>>

\* tasks.findIndex(task => !task.completed): -1 when there is none
findIncomplete(ts) ==
  LET hits == {i \in 1..Len(ts) : ~ts[i].completed}
  IN  IF hits = {} THEN -1
      ELSE (CHOOSE i \in hits : \A k \in hits : i <= k) - 1

\* selectNextIncomplete()
SelectNextIncomplete ==
  /\ IF Len(tasks) = 0 \/ findIncomplete(tasks) = -1
     THEN /\ UNCHANGED selectedIndex
          /\ selectRequest' = [selectRequest EXCEPT !.sent = FALSE]
     ELSE /\ selectedIndex' = findIncomplete(tasks)
          /\ selectRequest' = broadcastSelection(selectedIndex')
  /\ tmPrev' = NoSelection
  /\ UNCHANGED <<tasks, applied, serverVars, agentVars>>

\* ------------------------------------------- TaskManager: the connection
\* The fields at construction: ws = null, pollInterval = null,
\* isConnected = false.
NewManager == [ws |-> FALSE, isConnected |-> FALSE, pollInterval |-> FALSE]

\* socket:  "none", "connecting", "open", "aborting" (close() called before
\*          the handshake ended: 'error' then 'close' follow), "failing"
\*          ('error' emitted, 'close' follows), "closing" (close() called
\*          on an open socket) or "closed" ('close' handled)
\* timeout: the 5000 ms timer of connectWebSocket is pending
\* promise: the promise of connectWebSocket: "none", "pending", or the
\*          value it was resolved with, "true" or "false"
\* phase:   where initialize() stands: "new", "connecting" (awaiting
\*          connectWebSocket), "fetching" (awaiting fetchTasks), "ready"
\* destroyed: destroy() has been called
NewManagerEnv ==
  [socket |-> "none", timeout |-> FALSE, promise |-> "none",
   phase |-> "new", destroyed |-> FALSE]

\* startPolling(): an interval that exists is cleared, a new one is set
startPolling(m) == [m EXCEPT !.pollInterval = TRUE]

\* stopPolling()
stopPolling(m) == [m EXCEPT !.pollInterval = FALSE]

\* resolve(value) and what initialize() does when its await ends: only the
\* first resolve counts; on false the poll loop starts; then fetchTasks()
\* is awaited.
Resolve(m, env, value) ==
  IF env.promise # "pending"
  THEN /\ manager' = m
       /\ managerEnv' = env
  ELSE /\ manager' = IF value THEN m ELSE startPolling(m)
       /\ managerEnv' = [env EXCEPT !.promise = IF value THEN "true"
                                                ELSE "false",
                                    !.phase = "fetching"]

TmFrame == UNCHANGED <<serverVars, tmVars, wsClient, wsClientEnv,
                       dataSource, dataSourceEnv, overlay, feed>>

\* initialize() up to its first await; created = FALSE is the WebSocket
\* constructor throwing, which connectWebSocket answers with false.
Initialize(created) ==
  /\ managerEnv.phase = "new"
  /\ ~managerEnv.destroyed
  /\ IF created
     THEN /\ manager' = [manager EXCEPT !.ws = TRUE]
          /\ managerEnv' = [managerEnv EXCEPT !.socket = "connecting",
                                              !.timeout = TRUE,
                                              !.promise = "pending",
                                              !.phase = "connecting"]
     ELSE /\ manager' = startPolling(manager)
          /\ managerEnv' = [managerEnv EXCEPT !.promise = "false",
                                              !.phase = "fetching"]
  /\ TmFrame

\* the 5000 ms timer of connectWebSocket: resolve(false); the socket is
\* left as it is
ConnectTimeout ==
  /\ managerEnv.timeout
  /\ Resolve(manager, [managerEnv EXCEPT !.timeout = FALSE], FALSE)
  /\ TmFrame

\* ws.on('open')
TmOnOpen ==
  /\ managerEnv.socket = "connecting"
  /\ Resolve([manager EXCEPT !.isConnected = TRUE],
             [managerEnv EXCEPT !.socket = "open", !.timeout = FALSE],
             TRUE)
  /\ TmFrame

\* ws.on('error'): the handshake fails, the connection breaks, or close()
\* aborted the handshake
TmOnError ==
  /\ managerEnv.socket \in {"connecting", "open", "aborting"}
  /\ Resolve([manager EXCEPT !.isConnected = FALSE],
             [managerEnv EXCEPT !.socket = "failing", !.timeout = FALSE],
             FALSE)
  /\ TmFrame

\* ws.on('close'): after an error, after close(), or the server closing
TmOnClose ==
  /\ managerEnv.socket \in {"open", "failing", "closing"}
  /\ manager' = startPolling([manager EXCEPT !.isConnected = FALSE,
                                             !.ws = FALSE])
  /\ managerEnv' = [managerEnv EXCEPT !.socket = "closed"]
  /\ TmFrame

\* ws.on('message') with a tasks_updated message
TmOnMessage(newTasks) ==
  /\ managerEnv.socket = "open"
  /\ UpdateTasks(newTasks)

\* the interval of startPolling: fetchTasks(); answered = FALSE is
\* getTasks() failing
TmPollFires(answered, newTasks) ==
  /\ manager.pollInterval
  /\ IF answered THEN UpdateTasks(newTasks) ELSE UNCHANGED vars

\* the fetchTasks() awaited at the end of initialize()
TmFetchReturns(answered, newTasks) ==
  /\ managerEnv.phase = "fetching"
  /\ managerEnv' = [managerEnv EXCEPT !.phase = "ready"]
  /\ IF answered THEN updateTasks(newTasks) ELSE UNCHANGED tmVars
  /\ UNCHANGED <<serverVars, manager, wsClient, wsClientEnv,
                 dataSource, dataSourceEnv, overlay, feed>>

\* destroy()
TmDestroy ==
  /\ ~managerEnv.destroyed
  /\ manager' = [stopPolling(manager) EXCEPT !.ws = FALSE]
  /\ managerEnv' =
       [managerEnv EXCEPT
          !.destroyed = TRUE,
          !.socket = IF ~manager.ws THEN @
                     ELSE CASE @ = "connecting" -> "aborting"
                            [] @ = "open" -> "closing"
                            [] OTHER -> @]
  /\ TmFrame

\* ------------------------------------------------ overlay agents: shared
\* What surrounds an overlay agent (WSClient or ChecklistDataSource):
\* socket:    the socket it created last: "none", "connecting", "open",
\*            "aborting" (close() called before the handshake ended: an
\*            error event, then a close event follow), "failing" (error
\*            event fired, close event follows), "closing" (close() called
\*            on an open socket, close event follows) or "closed"
\* fallback:  the 1000 ms timer of start() is pending
\* reconnect: the timer of scheduleReconnect() is pending
\* delay:     the delay that timer was last set with (0: never set)
\* inflight:  timestamps of the answers to pollOnce() still under way
\* intervals: interval timers set by startPolling() and not cleared
\* calls:     number of start() calls so far
\* opened:    history: a socket of the agent has had its open event
\* halted:    stop() or destroy() has been called
\* k:         history: timers set by scheduleReconnect() since the last
\*            open event (since construction if there was none)
\* created:   history: sockets created since the last open event
NewAgentEnv ==
  [socket |-> "none", fallback |-> FALSE, reconnect |-> FALSE, delay |-> 0,
   inflight |-> {}, intervals |-> 0, calls |-> 0, opened |-> FALSE,
   halted |-> FALSE, k |-> 0, created |-> 0]

\* An agent's fields f together with its surroundings e
World(f, e) == [f |-> f, e |-> e]

\* close codes of a close event: normal closure, abnormal closure
CloseCodes == {1000, 1006}

\* handleData(payload) of the Checklist panel: the task list and the
\* timestamp of the payload are stored as they come
handleData(ts) == [lastUpdate |-> ts]

\* the server publishes a new snapshot
Publish ==
  /\ feed < MaxVersion
  /\ feed' = feed + 1
  /\ UNCHANGED <<serverVars, tmVars, manager, managerEnv, wsClient,
                 wsClientEnv, dataSource, dataSourceEnv, overlay>>

\* ------------------------------------------------------------- WSClient
\* the options of ChecklistWSClient (defaults of the constructor)
maxReconnectAttempts == 10
reconnectDelay == 1000
maxReconnectDelay == 30000
enablePolling == TRUE

NewWSClient ==
  [ws |-> FALSE, pollInterval |-> FALSE, reconnectTimeout |-> FALSE,
   status |-> "disconnected", connection |-> "none",
   reconnectAttempts |-> 0, isDestroyed |-> FALSE]

\* updateStatus(status, connection)
updateStatus(w, status, connection) ==
  [w EXCEPT !.f.status = status, !.f.connection = connection]

\* pollOnce() up to its await: a request leaves and will be answered with
\* the snapshot current now
clientPollOnce(w) ==
  IF w.f.isDestroyed THEN w
  ELSE [w EXCEPT !.e.inflight = @ \cup {feed}]

\* Mutant of clientStartPolling: a running poll loop is not looked at.
clientStartPollingAgain(w) ==
  IF w.f.isDestroyed \/ ~enablePolling THEN w
  ELSE [clientPollOnce(updateStatus(w, "connected", "polling"))
          EXCEPT !.f.pollInterval = TRUE,
                 !.e.intervals = @ + 1]

\* startPolling()
clientStartPolling(w) ==
  IF w.f.isDestroyed \/ w.f.pollInterval \/ ~enablePolling THEN w
  ELSE [clientPollOnce(updateStatus(w, "connected", "polling"))
          EXCEPT !.f.pollInterval = TRUE,
                 !.e.intervals = @ + 1]

\* stopPolling()
clientStopPolling(w) ==
  [w EXCEPT !.f.pollInterval = FALSE,
            !.e.intervals = IF w.f.pollInterval THEN @ - 1 ELSE @]

\* Mutant of backoffDelay: the delay is not capped.
backoffDelayUncapped(attempts) == reconnectDelay * 2^attempts

\* the delay computed by scheduleReconnect()
backoffDelay(attempts) ==
  Min(reconnectDelay * 2^attempts, maxReconnectDelay)

\* Mutant of mayReconnect: there is no threshold.
mayReconnectAlways(attempts) == TRUE

\* the test of onclose that chooses between another reconnect and the
\* poll loop
mayReconnect(attempts) == attempts < maxReconnectAttempts

\* scheduleReconnect()
clientScheduleReconnect(w) ==
  IF w.f.isDestroyed THEN w
  ELSE [updateStatus(w, "reconnecting", "none")
          EXCEPT !.f.reconnectAttempts = @ + 1,
                 !.f.reconnectTimeout = TRUE,
                 !.e.reconnect = TRUE,
                 !.e.delay = backoffDelay(w.f.reconnectAttempts),
                 !.e.k = @ + 1]

\* ws.close() as the socket takes it
closed(socket) ==
  CASE socket = "connecting" -> "aborting"
    [] socket = "open" -> "closing"
    [] OTHER -> socket

\* connectWebSocket(); the URL is a constant of the build, so the
\* constructor does not throw
clientConnectWebSocket(w) ==
  IF w.f.isDestroyed THEN w
  ELSE LET v == IF w.f.ws THEN [w EXCEPT !.e.socket = closed(@)] ELSE w
       IN [updateStatus(v, "connecting", "websocket")
             EXCEPT !.f.ws = TRUE,
                    !.e.socket = "connecting",
                    !.e.created = @ + 1]

\* Mutant of clientCleanup: the reconnect timer is left pending.
clientCleanupKeepsTimer(w) ==
  [updateStatus(w, "disconnected", "none")
     EXCEPT !.f.ws = FALSE,
            !.e.socket = IF w.f.ws THEN closed(@) ELSE @,
            !.f.pollInterval = FALSE,
            !.e.intervals = IF w.f.pollInterval THEN @ - 1 ELSE @,
            !.f.reconnectAttempts = 0]

\* cleanup()
clientCleanup(w) ==
  [updateStatus(w, "disconnected", "none")
     EXCEPT !.f.ws = FALSE,
            !.e.socket = IF w.f.ws THEN closed(@) ELSE @,
            !.f.pollInterval = FALSE,
            !.e.intervals = IF w.f.pollInterval THEN @ - 1 ELSE @,
            !.f.reconnectTimeout = FALSE,
            !.e.reconnect = IF w.f.reconnectTimeout THEN FALSE ELSE @,
            !.f.reconnectAttempts = 0]

\* Mutant of clientOnOpen: the poll loop is left running.
clientOnOpenStillPolling(w) ==
  IF w.f.isDestroyed THEN w
  ELSE [updateStatus(w, "connected", "websocket")
          EXCEPT !.f.reconnectAttempts = 0]

\* ws.onopen
clientOnOpen(w) ==
  IF w.f.isDestroyed THEN w
  ELSE clientStopPolling([updateStatus(w, "connected", "websocket")
                            EXCEPT !.f.reconnectAttempts = 0])

\* ws.onclose
clientOnClose(w, code) ==
  IF w.f.isDestroyed THEN w
  ELSE LET v == [w EXCEPT !.f.ws = FALSE]
       IN IF code = 1000 THEN updateStatus(v, "disconnected", "none")
          ELSE IF mayReconnect(v.f.reconnectAttempts)
               THEN clientScheduleReconnect(v)
               ELSE IF enablePolling THEN clientStartPolling(v)
                    ELSE updateStatus(v, "error", "none")

\* ws.onerror
clientOnError(w) ==
  IF w.f.status = "connecting" /\ enablePolling /\ w.f.reconnectAttempts = 0
  THEN clientStartPolling(w)
  ELSE w

ClientWorld == World(wsClient, wsClientEnv)

ClientBecomes(w) ==
  /\ wsClient' = w.f
  /\ wsClientEnv' = w.e
  /\ UNCHANGED <<serverVars, tmVars, manager, managerEnv, dataSource,
                 dataSourceEnv, feed>>

\* start(); later calls are made after destroy() only
ClientStart ==
  /\ wsClientEnv.calls < MaxStarts
  /\ wsClientEnv.calls = 0 \/ wsClientEnv.halted
  /\ LET w == [ClientWorld EXCEPT !.e.calls = @ + 1]
     IN ClientBecomes(
          IF w.f.isDestroyed THEN w
          ELSE [clientConnectWebSocket(clientCleanup(w))
                  EXCEPT !.e.fallback = enablePolling])
  /\ UNCHANGED overlay

\* destroy()
ClientDestroy ==
  /\ wsClientEnv.calls > 0
  /\ ~wsClientEnv.halted
  /\ ClientBecomes(clientCleanup([ClientWorld EXCEPT !.f.isDestroyed = TRUE,
                                                     !.e.halted = TRUE]))
  /\ UNCHANGED overlay

\* the open event of the socket
ClientSocketOpens ==
  /\ wsClientEnv.socket = "connecting"
  /\ ClientBecomes(clientOnOpen([ClientWorld EXCEPT !.e.socket = "open",
                                                    !.e.opened = TRUE,
                                                    !.e.k = 0,
                                                    !.e.created = 0]))
  /\ UNCHANGED overlay

\* the error event of the socket: the handshake fails, the connection
\* breaks, or close() ended the handshake
ClientSocketErrors ==
  /\ wsClientEnv.socket \in {"connecting", "open", "aborting"}
  /\ ClientBecomes(clientOnError([ClientWorld EXCEPT !.e.socket = "failing"]))
  /\ UNCHANGED overlay

\* the close event of the socket: code 1000 only ends a connection that
\* was open, on the server's side or by close(1000) on this side
ClientSocketCloses(code) ==
  /\ \/ wsClientEnv.socket = "open"
     \/ wsClientEnv.socket = "closing" /\ code = 1000
     \/ wsClientEnv.socket = "failing" /\ code # 1000
  /\ ClientBecomes(clientOnClose([ClientWorld EXCEPT !.e.socket = "closed"],
                                 code))
  /\ UNCHANGED overlay

\* the timer set by scheduleReconnect()
ClientReconnectFires ==
  /\ wsClientEnv.reconnect
  /\ ClientBecomes(
       clientConnectWebSocket([ClientWorld EXCEPT !.e.reconnect = FALSE]))
  /\ UNCHANGED overlay

\* the 1000 ms timer set by start()
ClientFallbackFires ==
  /\ wsClientEnv.fallback
  /\ LET w == [ClientWorld EXCEPT !.e.fallback = FALSE]
     IN ClientBecomes(IF w.f.status # "connected" /\ ~w.f.isDestroyed
                      THEN clientStartPolling(w)
                      ELSE w)
  /\ UNCHANGED overlay

\* the interval set by startPolling()
ClientPollFires ==
  /\ wsClientEnv.intervals > 0
  /\ ClientBecomes(clientPollOnce(ClientWorld))
  /\ UNCHANGED overlay

\* forceReload()
clientForceReload(w) ==
  IF w.f.connection = "polling" THEN clientPollOnce(w) ELSE w

\* forceReload() called by the 'r' key of the panel
ClientForceReload ==
  /\ wsClientEnv.calls > 0
  /\ ClientBecomes(clientForceReload(ClientWorld))
  /\ UNCHANGED overlay

\* pollOnce() after its await: the answer is handed to onData, or the
\* request has failed
ClientPollReturns(ts, ok) ==
  /\ ts \in wsClientEnv.inflight
  /\ LET w == [ClientWorld EXCEPT !.e.inflight = @ \ {ts}]
     IN IF ok
        THEN /\ ClientBecomes(w)
             /\ overlay' = handleData(ts)
        ELSE /\ ClientBecomes(
                  IF w.f.status = "connected" /\ w.f.connection = "polling"
                  THEN updateStatus(w, "error", "polling")
                  ELSE w)
             /\ UNCHANGED overlay

\* ws.onmessage with the server's current snapshot
ClientSocketMessage ==
  /\ wsClientEnv.socket = "open"
  /\ ClientBecomes(ClientWorld)
  /\ overlay' = IF wsClient.isDestroyed THEN overlay ELSE handleData(feed)

\* -------------------------------------------------- ChecklistDataSource
sourceMaxReconnectAttempts == 5

NewDataSource ==
  [ws |-> FALSE, pollInterval |-> FALSE, reconnectTimeout |-> FALSE,
   isConnected |-> FALSE, currentSource |-> "poll", reconnectAttempts |-> 0]

\* pollOnce() up to its await
sourcePollOnce(w) == [w EXCEPT !.e.inflight = @ \cup {feed}]

\* startPolling()
sourceStartPolling(w) ==
  IF w.f.pollInterval THEN w
  ELSE [sourcePollOnce(w) EXCEPT !.f.currentSource = "poll",
                                 !.f.pollInterval = TRUE,
                                 !.e.intervals = @ + 1]

\* stopPolling()
sourceStopPolling(w) ==
  [w EXCEPT !.f.pollInterval = FALSE,
            !.e.intervals = IF w.f.pollInterval THEN @ - 1 ELSE @]

\* the delay computed by scheduleReconnect()
sourceBackoffDelay(attempts) == Min(1000 * 2^attempts, 30000)

\* scheduleReconnect()
sourceScheduleReconnect(w) ==
  [w EXCEPT !.f.reconnectAttempts = @ + 1,
            !.f.reconnectTimeout = TRUE,
            !.e.reconnect = TRUE,
            !.e.delay = sourceBackoffDelay(w.f.reconnectAttempts),
            !.e.k = @ + 1]

\* connectWebSocket(); the URL is a constant of the build, so the
\* constructor does not throw
sourceConnectWebSocket(w) ==
  [w EXCEPT !.f.ws = TRUE,
            !.e.socket = "connecting",
            !.e.created = @ + 1]

\* cleanup()
sourceCleanup(w) ==
  [w EXCEPT !.f.ws = FALSE,
            !.e.socket = IF w.f.ws THEN closed(@) ELSE @,
            !.f.pollInterval = FALSE,
            !.e.intervals = IF w.f.pollInterval THEN @ - 1 ELSE @,
            !.f.reconnectTimeout = FALSE,
            !.e.reconnect = IF w.f.reconnectTimeout THEN FALSE ELSE @,
            !.f.isConnected = FALSE]

\* ws.onopen
sourceOnOpen(w) ==
  sourceStopPolling([w EXCEPT !.f.isConnected = TRUE,
                              !.f.currentSource = "ws",
                              !.f.reconnectAttempts = 0])

\* ws.onclose
sourceOnClose(w) ==
  LET v == [w EXCEPT !.f.isConnected = FALSE, !.f.ws = FALSE]
  IN IF v.f.reconnectAttempts < sourceMaxReconnectAttempts
     THEN sourceScheduleReconnect(v)
     ELSE sourceStartPolling(v)

SourceWorld == World(dataSource, dataSourceEnv)

SourceBecomes(w) ==
  /\ dataSource' = w.f
  /\ dataSourceEnv' = w.e
  /\ UNCHANGED <<serverVars, tmVars, manager, managerEnv, wsClient,
                 wsClientEnv, feed>>

\* start(), called once when the panel mounts
SourceStart ==
  /\ dataSourceEnv.calls = 0
  /\ SourceBecomes([sourceConnectWebSocket(SourceWorld)
                      EXCEPT !.e.calls = 1, !.e.fallback = TRUE])
  /\ UNCHANGED overlay

\* stop(), called once when the panel unmounts
SourceStop ==
  /\ dataSourceEnv.calls > 0
  /\ ~dataSourceEnv.halted
  /\ SourceBecomes(sourceCleanup([SourceWorld EXCEPT !.e.halted = TRUE]))
  /\ UNCHANGED overlay

\* the open event of the socket
SourceSocketOpens ==
  /\ dataSourceEnv.socket = "connecting"
  /\ SourceBecomes(sourceOnOpen([SourceWorld EXCEPT !.e.socket = "open",
                                                    !.e.opened = TRUE,
                                                    !.e.k = 0,
                                                    !.e.created = 0]))
  /\ UNCHANGED overlay

\* the error event of the socket; ws.onerror only logs
SourceSocketErrors ==
  /\ dataSourceEnv.socket \in {"connecting", "open", "aborting"}
  /\ SourceBecomes([SourceWorld EXCEPT !.e.socket = "failing"])
  /\ UNCHANGED overlay

\* the close event of the socket
SourceSocketCloses ==
  /\ dataSourceEnv.socket \in {"open", "closing", "failing"}
  /\ SourceBecomes(sourceOnClose([SourceWorld EXCEPT !.e.socket = "closed"]))
  /\ UNCHANGED overlay

\* the timer set by scheduleReconnect()
SourceReconnectFires ==
  /\ dataSourceEnv.reconnect
  /\ SourceBecomes(
       sourceConnectWebSocket([SourceWorld EXCEPT !.e.reconnect = FALSE]))
  /\ UNCHANGED overlay

\* the 1000 ms timer set by start()
SourceFallbackFires ==
  /\ dataSourceEnv.fallback
  /\ LET w == [SourceWorld EXCEPT !.e.fallback = FALSE]
     IN SourceBecomes(IF ~w.f.isConnected THEN sourceStartPolling(w) ELSE w)
  /\ UNCHANGED overlay

\* the interval set by startPolling()
SourcePollFires ==
  /\ dataSourceEnv.intervals > 0
  /\ SourceBecomes(sourcePollOnce(SourceWorld))
  /\ UNCHANGED overlay

\* forceReload()
sourceForceReload(w) ==
  IF w.f.currentSource = "poll" THEN sourcePollOnce(w) ELSE w

\* forceReload() called by the 'r' key of the panel
SourceForceReload ==
  /\ dataSourceEnv.calls > 0
  /\ SourceBecomes(sourceForceReload(SourceWorld))
  /\ UNCHANGED overlay

\* pollOnce() after its await: the answer is handed to onData, or the
\* request has failed
SourcePollReturns(ts, ok) ==
  /\ ts \in dataSourceEnv.inflight
  /\ SourceBecomes([SourceWorld EXCEPT !.e.inflight = @ \ {ts}])
  /\ overlay' = IF ok THEN handleData(ts) ELSE overlay

\* ws.onmessage with the server's current snapshot
SourceSocketMessage ==
  /\ dataSourceEnv.socket = "open"
  /\ SourceBecomes(SourceWorld)
  /\ overlay' = handleData(feed)

InitWith(files) ==
  /\ tasksFile \in files
  /\ now = MaxClock - 1
  /\ lastData = loadTasksFile
  /\ selectedTaskId = Null
  /\ saveTimeout = FALSE
  /\ timers = 0
  /\ fsEvent = FALSE
  /\ clients = {}
  /\ chan = [c \in Chans |-> "free"]
  /\ wire = NoWire
  /\ pushes = ZeroPushes
  /\ last = [op |-> "start", status |-> 0]
  /\ calls = 0
  /\ tasks = <<>>
  /\ selectedIndex = 0
  /\ selectRequest = [taskId |-> Null, sent |-> FALSE]
  /\ tmPrev = NoSelection
  /\ applied = 0
  /\ manager = NewManager
  /\ managerEnv = NewManagerEnv
  /\ wsClient = NewWSClient
  /\ wsClientEnv = NewAgentEnv
  /\ dataSource = NewDataSource
  /\ dataSourceEnv = NewAgentEnv
  /\ overlay = handleData(0)
  /\ feed = 1

\* req.body.targetPosition as received: <<typeof is 'number', value>>.
TargetInputs == (-1)..MaxTasks
PositionInputs == {<<FALSE, 0>>} \cup {<<TRUE, t>> : t \in TargetInputs}
\* The disk works and no send throws.
Calm == Env("written", {})
\* Room for one more task in the list (the bound on its length).
Room == Len(lastData.items) < MaxTasks

\* The store under reorders: the calls that add, delete and move tasks, with
\* a working disk and no channel.
NextOrder ==
  \/ \E t \in {"", "a"} : Room /\ PostAdd("good", t, Calm)
  \/ \E id \in IdInputs : PostDelete("good", id, Calm)
  \/ \E id \in IdInputs : PostMoveUp("good", id, Calm)
  \/ \E id \in IdInputs : PostMoveDown("good", id, Calm)
  \/ \E id \in IdInputs, p \in PositionInputs :
       PostMoveToPosition("good", id, p[1], p[2], Calm)
  \/ WatcherChange(Calm)
  \/ SaveTimeoutFires(Calm)

SpecOrder == InitWith(Files) /\ [][NextOrder]_vars

\* One more stimulus is allowed (the bound on the length of a behaviour).
Budget == calls < MaxCalls

\* The server and its channels: toggles, deletions and selections pushed to
\* WebSocket clients that come and go, sends to ws2 that may throw, and the
\* file watcher reacting to the server's writes and to external edits.
Throws == {Env("written", {}), Env("written", {"ws2"})}
SyncFiles ==
  {AbsentFile, InvalidFile, DataFile(FileTasks(1, FALSE), 1),
   DataFile(FileTasks(2, FALSE), 1)}

NextSync ==
  \/ \E id \in IdInputs, e \in Throws : Budget /\ PostToggle("good", id, e)
  \/ \E id \in IdInputs, e \in Throws : Budget /\ PostDelete("good", id, e)
  \/ \E id \in IdInputs, e \in Throws : Budget /\ PostSelect("good", id, e)
  \/ \E e \in Throws : WatcherChange(e)
  \/ \E f \in SyncFiles : Budget /\ ExternalEdit(f)
  \/ \E c \in Chans, e \in Throws : Budget /\ WsConnection(c, e)
  \/ \E c \in Chans : SocketCloses(c)
  \/ \E c \in Chans : WsOnClose(c)

SpecSync == InitWith(SyncFiles) /\ [][NextSync]_vars

\* The server and its channels with every source of a push: toggles,
\* reorders with their save timer, selections, reloads after the server's
\* own writes and after external edits, channels that come and go, sends
\* to ws2 that may throw, and the clock.
NextBroadcast ==
  \/ \E id \in IdInputs, e \in Throws : Budget /\ PostToggle("good", id, e)
  \/ \E id \in IdInputs, e \in Throws : Budget /\ PostMoveUp("good", id, e)
  \/ \E id \in IdInputs, e \in Throws : Budget /\ PostSelect("good", id, e)
  \/ \E e \in Throws : WatcherChange(e)
  \/ \E e \in Throws : SaveTimeoutFires(e)
  \/ \E f \in SyncFiles : Budget /\ ExternalEdit(f)
  \/ \E c \in Chans, e \in Throws : Budget /\ WsConnection(c, e)
  \/ \E c \in Chans : SocketCloses(c)
  \/ \E c \in Chans : WsOnClose(c)
  \/ Tick

SpecBroadcast == InitWith(SyncFiles) /\ [][NextBroadcast]_vars

\* Fan-out: both channels may be registered before a broadcast, so
\* connections and external edits are not counted against the budget of
\* stimuli; the control calls are.
NextFanOut ==
  \/ \E id \in IdInputs, e \in Throws : Budget /\ PostToggle("good", id, e)
  \/ \E id \in IdInputs, e \in Throws : Budget /\ PostSelect("good", id, e)
  \/ \E e \in Throws : WatcherChange(e)
  \/ \E f \in SyncFiles : ExternalEdit(f)
  \/ \E c \in Chans, e \in Throws : WsConnection(c, e)
  \/ \E c \in Chans : SocketCloses(c)
  \/ \E c \in Chans : WsOnClose(c)

SpecFanOut == InitWith(SyncFiles) /\ [][NextFanOut]_vars

\* The store and its disk: every mutating call with a valid token, writes
\* that may fail or tear the file, the debounce timer, the watcher and one
\* channel listening.
Disk == {Env(o, {}) : o \in WriteOutcomes}

\* Texts that are rejected and accepted.
SaveTexts == {"", "a"}

NextSave ==
  \/ \E e \in Disk : Budget /\ PostToggleNext("good", e)
  \/ \E id \in IdInputs, e \in Disk : Budget /\ PostToggle("good", id, e)
  \/ \E cf \in BOOLEAN, e \in Disk : Budget /\ PostReset("good", cf, e)
  \/ \E t \in SaveTexts, e \in Disk :
       Budget /\ Room /\ PostAdd("good", t, e)
  \/ \E id \in IdInputs, e \in Disk : Budget /\ PostDelete("good", id, e)
  \/ \E id \in IdInputs, t \in SaveTexts, e \in Disk :
       Budget /\ PostEdit("good", id, t, e)
  \/ \E id \in IdInputs : Budget /\ PostMoveUp("good", id, Calm)
  \/ \E id \in IdInputs : Budget /\ PostMoveDown("good", id, Calm)
  \/ \E id \in IdInputs, p \in PositionInputs :
       Budget /\ PostMoveToPosition("good", id, p[1], p[2], Calm)
  \/ WatcherChange(Calm)
  \/ \E e \in Disk : SaveTimeoutFires(e)
  \/ Budget /\ WsConnection("ws1", Calm)
  \/ Tick

SpecSave == InitWith(SyncFiles) /\ [][NextSave]_vars

\* The control interface with and without credentials: every call with a
\* missing, wrong or right token, one channel listening.
NextAuth ==
  \/ \E a \in AuthInputs : Budget /\ PostToggleNext(a, Calm)
  \/ \E a \in AuthInputs, id \in IdInputs : Budget /\ PostToggle(a, id, Calm)
  \/ \E a \in AuthInputs, cf \in BOOLEAN : Budget /\ PostReset(a, cf, Calm)
  \/ \E a \in AuthInputs, t \in TextInputs :
       Budget /\ Room /\ PostAdd(a, t, Calm)
  \/ \E a \in AuthInputs, id \in IdInputs : Budget /\ PostDelete(a, id, Calm)
  \/ \E a \in AuthInputs, id \in IdInputs, t \in TextInputs :
       Budget /\ PostEdit(a, id, t, Calm)
  \/ \E a \in AuthInputs, id \in IdInputs : Budget /\ PostSelect(a, id, Calm)
  \/ \E a \in AuthInputs, id \in IdInputs : Budget /\ PostMoveUp(a, id, Calm)
  \/ \E a \in AuthInputs, id \in IdInputs :
       Budget /\ PostMoveDown(a, id, Calm)
  \/ \E a \in AuthInputs, id \in IdInputs, p \in PositionInputs :
       Budget /\ PostMoveToPosition(a, id, p[1], p[2], Calm)
  \/ \E a \in AuthInputs : Budget /\ GetTasks(a)
  \/ WatcherChange(Calm)
  \/ SaveTimeoutFires(Calm)
  \/ Budget /\ WsConnection("ws1", Calm)

SpecAuth == InitWith(SyncFiles) /\ [][NextAuth]_vars

\* The control interface with the right token: every call with well-formed
\* and malformed bodies, one channel listening.
NextControl ==
  \/ Budget /\ PostToggleNext("good", Calm)
  \/ \E id \in IdInputs : Budget /\ PostToggle("good", id, Calm)
  \/ \E cf \in BOOLEAN : Budget /\ PostReset("good", cf, Calm)
  \/ \E t \in TextInputs : Budget /\ Room /\ PostAdd("good", t, Calm)
  \/ \E id \in IdInputs : Budget /\ PostDelete("good", id, Calm)
  \/ \E id \in IdInputs, t \in TextInputs :
       Budget /\ PostEdit("good", id, t, Calm)
  \/ \E id \in IdInputs : Budget /\ PostSelect("good", id, Calm)
  \/ \E id \in IdInputs : Budget /\ PostMoveUp("good", id, Calm)
  \/ \E id \in IdInputs : Budget /\ PostMoveDown("good", id, Calm)
  \/ \E id \in IdInputs, p \in PositionInputs :
       Budget /\ PostMoveToPosition("good", id, p[1], p[2], Calm)
  \/ WatcherChange(Calm)
  \/ SaveTimeoutFires(Calm)
  \/ Budget /\ WsConnection("ws1", Calm)

SpecControl == InitWith(SyncFiles) /\ [][NextControl]_vars

\* The same when the watcher's pending event is handled and the save
\* timer that is armed fires.
SpecControlLive ==
  /\ SpecControl
  /\ WF_vars(WatcherChange(Calm))
  /\ WF_vars(SaveTimeoutFires(Calm))

\* The control interface until the server is shut down: the SIGINT and
\* SIGTERM handlers call stop() and then process.exit(0), so nothing runs
\* after stop().  The write of stop() may fail or tear the file.
NextStop ==
  /\ last.op # "stop"
  /\ \/ NextControl
     \/ SocketCloses("ws1")
     \/ WsOnClose("ws1")
     \/ \E e \in Disk : Stop(e)

SpecStop == InitWith(SyncFiles) /\ [][NextStop]_vars

\* Task lists as the controller receives them: tasks with distinct ids whose
\* order fields follow the array, are rotated against it, or are missing
\* (the rotated lists and those without order fields list their ids in
\* ascending order).
Arrangements ==
  {a \in UNION {[1..n -> Ids] : n \in 0..MaxTasks} :
     \A i, j \in 1..Len(a) : a[i] = a[j] => i = j}
SnapKinds == {"aligned", "rotated", "unordered"}
Snapshot(a, kind) ==
  [i \in 1..Len(a) |->
     Task(a[i], FALSE, CASE kind = "aligned" -> i - 1
                         [] kind = "rotated" -> i % Len(a)
                         [] OTHER -> NoOrder)]
Ascending ==
  {b \in Arrangements : \A i, j \in 1..Len(b) : i < j => b[i] < b[j]}
Snapshots ==
  {Snapshot(a, "aligned") : a \in Arrangements}
    \cup {Snapshot(a, k) : a \in Ascending, k \in SnapKinds \ {"aligned"}}

NextTaskManager ==
  \/ \E ts \in Snapshots : UpdateTasks(ts)
  \/ SelectNext
  \/ SelectPrevious
  \/ SelectNextIncomplete

SpecTaskManager == InitWith({AbsentFile}) /\ [][NextTaskManager]_vars

\* Task lists with completed flags: no task completed, the first one, or
\* all of them; the order fields follow the array.
DoneKinds == {"none", "head", "all"}
FlaggedSnapshot(a, kind) ==
  [i \in 1..Len(a) |->
     Task(a[i], kind = "all" \/ (kind = "head" /\ i = 1), i - 1)]
FlaggedSnapshots ==
  {FlaggedSnapshot(a, k) : a \in Arrangements, k \in DoneKinds}

NextControllerInit ==
  \/ \E ts \in FlaggedSnapshots : UpdateTasks(ts)
  \/ SelectNext
  \/ SelectPrevious
  \/ SelectNextIncomplete

SpecControllerInit == InitWith({AbsentFile}) /\ [][NextControllerInit]_vars


\* The controller's TaskManager from construction on: its socket, its
\* timers and the task lists that reach it (lists of at most one task).
ConnectionSnapshots ==
  {Snapshot(a, "aligned") : a \in {b \in Arrangements : Len(b) <= 1}}

NextController ==
  \/ \E created \in BOOLEAN : Initialize(created)
  \/ ConnectTimeout
  \/ TmOnOpen
  \/ TmOnError
  \/ TmOnClose
  \/ \E ts \in ConnectionSnapshots : TmOnMessage(ts)
  \/ \E answered \in BOOLEAN, ts \in ConnectionSnapshots :
       TmPollFires(answered, ts)
  \/ \E answered \in BOOLEAN, ts \in ConnectionSnapshots :
       TmFetchReturns(answered, ts)
  \/ TmDestroy

SpecController == InitWith({AbsentFile}) /\ [][NextController]_vars


\* One overlay page: it mounts one panel, whose agent is a WSClient or a
\* ChecklistDataSource; the server's snapshot does not change.
NextAgent ==
  \/ dataSourceEnv.calls = 0 /\ ClientStart
  \/ ClientDestroy
  \/ ClientSocketOpens
  \/ ClientSocketErrors
  \/ \E code \in CloseCodes : ClientSocketCloses(code)
  \/ ClientReconnectFires
  \/ ClientFallbackFires
  \/ ClientPollFires
  \/ ClientForceReload
  \/ \E ts \in 1..MaxVersion, ok \in BOOLEAN : ClientPollReturns(ts, ok)
  \/ ClientSocketMessage
  \/ wsClientEnv.calls = 0 /\ SourceStart
  \/ SourceStop
  \/ SourceSocketOpens
  \/ SourceSocketErrors
  \/ SourceSocketCloses
  \/ SourceReconnectFires
  \/ SourceFallbackFires
  \/ SourcePollFires
  \/ SourceForceReload
  \/ \E ts \in 1..MaxVersion, ok \in BOOLEAN : SourcePollReturns(ts, ok)
  \/ SourceSocketMessage

SpecAgent == InitWith({AbsentFile}) /\ [][NextAgent]_vars

\* The same page when every timer that is set and not cleared fires:
\* the 1-second timer of start() is a setTimeout of the browser.
SpecAgentLive ==
  /\ SpecAgent
  /\ WF_vars(ClientFallbackFires)
  /\ WF_vars(SourceFallbackFires)

\* The same page while the server publishes new snapshots.
NextOverlay ==
  \/ NextAgent
  \/ Publish

SpecOverlay == InitWith({AbsentFile}) /\ [][NextOverlay]_vars

\* ================================================================ claims
\* The tasks of a list without their order fields, and the order fields.
Strip(items) ==
  [j \in 1..Len(items) |->
     [id |-> items[j].id, text |-> items[j].text, done |-> items[j].done]]
Orders(items) == [j \in 1..Len(items) |-> items[j].order]
IdSeq(items) == [j \in 1..Len(items) |-> items[j].id]
Present(id) == lastData.has /\ id \in IdsOf(lastData.items)
\* 1-based position of a present id
PosOf(items, id) == CHOOSE j \in 1..Len(items) : items[j].id = id

\* C1: the order values of the N tasks of the store are exactly 0..N-1,
\* without duplicates or gaps, whatever file was loaded and whatever add,
\* delete and move calls followed.
C1_OrderDensity ==
  lastData.has =>
    /\ {lastData.items[j].order : j \in 1..Len(lastData.items)}
         = 0..(Len(lastData.items) - 1)
    /\ \A j, k \in 1..Len(lastData.items) :
         lastData.items[j].order = lastData.items[k].order => j = k

\* C4: move-up swaps the task with the one before it and leaves the other
\* positions alone, the first task wraps to the end; move-down mirrors it;
\* an absent id is refused and the list stays as it was.
MoveUpPolicy(id) ==
  LET old == Strip(lastData.items)
      new == Strip(lastData'.items)
      n == Len(old)
  IN  IF ~Present(id)
      THEN last'.status # HTTP_OK /\ lastData' = lastData
      ELSE LET i == PosOf(old, id)
           IN  /\ last'.status = HTTP_OK
               /\ Len(new) = n
               /\ IF i = 1
                  THEN /\ new[n] = old[1]
                       /\ \A j \in 1..(n - 1) : new[j] = old[j + 1]
                  ELSE /\ new[i - 1] = old[i]
                       /\ new[i] = old[i - 1]
                       /\ \A j \in (1..n) \ {i - 1, i} : new[j] = old[j]

MoveDownPolicy(id) ==
  LET old == Strip(lastData.items)
      new == Strip(lastData'.items)
      n == Len(old)
  IN  IF ~Present(id)
      THEN last'.status # HTTP_OK /\ lastData' = lastData
      ELSE LET i == PosOf(old, id)
           IN  /\ last'.status = HTTP_OK
               /\ Len(new) = n
               /\ IF i = n
                  THEN /\ new[1] = old[n]
                       /\ \A j \in 2..n : new[j] = old[j - 1]
                  ELSE /\ new[i + 1] = old[i]
                       /\ new[i] = old[i + 1]
                       /\ \A j \in (1..n) \ {i, i + 1} : new[j] = old[j]

C4_MovePolicy ==
  [][\A id \in IdInputs :
       /\ (last'.op = "move-up" /\ PostMoveUp("good", id, Calm))
            => MoveUpPolicy(id)
       /\ (last'.op = "move-down" /\ PostMoveDown("good", id, Calm))
            => MoveDownPolicy(id)]_vars

\* C4 witness: the first call after loading [1,2,3] moved task 1 up, and it
\* wrapped to the end.
C4_Witness ==
  /\ calls = 1
  /\ last = [op |-> "move-up", status |-> HTTP_OK]
  /\ IdSeq(lastData.items) = <<2, 3, 1>>

\* C5: move-to-position of a present task to a target >= 0 gives the old
\* list with the task taken out and put back at the clamped index, and
\* order fields 0..N-1 in list order.
ReinsertedAt(id, target) ==
  LET old == Strip(lastData.items)
      new == Strip(lastData'.items)
      n == Len(old)
      i == PosOf(old, id)
      c == (IF target > n - 1 THEN n - 1 ELSE target) + 1
      rest == [j \in 1..(n - 1) |-> IF j < i THEN old[j] ELSE old[j + 1]]
  IN  /\ Len(new) = n
      /\ new[c] = old[i]
      /\ \A j \in 1..(n - 1) : new[IF j < c THEN j ELSE j + 1] = rest[j]

C5_MoveToPosition ==
  [][\A id \in Ids, t \in 0..MaxTasks :
       (/\ last'.op = "move-to-position"
        /\ Present(id)
        /\ PostMoveToPosition("good", id, TRUE, t, Calm)) =>
         /\ last'.status = HTTP_OK
         /\ ReinsertedAt(id, t)
         /\ \A j \in 1..Len(lastData'.items) :
              lastData'.items[j].order = j - 1]_vars

\* C6: move-to-position to the index the task already has (after clamping)
\* answers success and leaves the list as it was.
C6_NoOpMove ==
  [][last'.op = "move-to-position" =>
       \A i \in 1..Len(lastData.items), t \in 0..MaxTasks :
         (/\ i - 1 = (IF t > Len(lastData.items) - 1
                      THEN Len(lastData.items) - 1 ELSE t)
          /\ PostMoveToPosition("good", lastData.items[i].id, TRUE, t,
                                Calm)) =>
           /\ last'.status = HTTP_OK
           /\ lastData'.items = lastData.items]_vars

\* C6 witness: the first call was a move-to-position answered with success
\* and no save was scheduled: the target was the task's own index.
C6_Witness ==
  /\ calls = 1
  /\ last = [op |-> "move-to-position", status |-> HTTP_OK]
  /\ ~saveTimeout
  /\ timers = 0
  /\ Len(lastData.items) = MaxTasks


\* C2: the server's selectedTaskId, and the one in every pushed payload, is
\* null or the id of a task of the list it goes with.
C2_SelectionNeverDangling ==
  /\ selectedTaskId = Null \/ selectedTaskId \in IdsOf(lastData.items)
  /\ wire.sel = Null \/ wire.sel \in IdsOf(wire.items)

\* C3: a successful toggle flips done of that task, rewrites the mirror
\* file with the new list and the current time, and pushes one snapshot to
\* each open channel; nothing that follows from it (the watcher seeing the
\* server's own write) pushes another one.
ToggleEffect(id) ==
  LET i == PosOf(lastData.items, id)
  IN  /\ last'.status = HTTP_OK
      /\ lastData'.items[i].done = ~lastData.items[i].done
      /\ tasksFile' = DataFile(lastData'.items, now)
      /\ \A c \in OpenClients : pushes'[c] = 1

C3_ToggleEndToEnd ==
  [][/\ \A id \in Ids :
          (/\ calls' # calls
           /\ last'.op = "toggle"
           /\ Present(id)
           /\ PostToggle("good", id, Calm)) => ToggleEffect(id)
     /\ (calls' = calls /\ last = [op |-> "toggle", status |-> HTTP_OK]) =>
          \A c \in OpenClients : pushes'[c] = pushes[c]]_vars


ReorderOps == {"move-up", "move-down", "move-to-position"}
ImmediateOps == {"toggle-next", "toggle", "reset", "add", "delete", "edit"}
\* The step is a stimulus (a control call, an edit, a connection), not a
\* timer or watcher callback; exact under a specification with a Budget.
Stimulus == calls' # calls

\* C7 as claimed: every successful reorder call leaves exactly one save
\* timer pending, the call itself writes nothing, the timer's callback
\* writes the list as it then is, and never is more than one timer pending.
TimerDiscipline ==
  /\ timers' <= 1
  /\ saveTimeout' <=> (timers' = 1)
  /\ (Stimulus /\ last'.op \in ReorderOps) => tasksFile' = tasksFile
  /\ \A e \in Disk :
       (~Stimulus /\ timers' # timers /\ SaveTimeoutFires(e)) =>
         /\ timers' = 0
         /\ lastData'.items = lastData.items
         /\ e.outcome = "written" =>
              tasksFile' = DataFile(lastData.items, now)

MovesTask(id, t) ==
  /\ Present(id)
  /\ PosOf(lastData.items, id) - 1
       # (IF t > Len(lastData.items) - 1 THEN Len(lastData.items) - 1 ELSE t)

C8_DurableBeforeSuccess ==
  [][(Stimulus /\ last'.op \in ImmediateOps /\ last'.status = HTTP_OK) =>
       /\ tasksFile'.kind = "data"
       /\ tasksFile'.items = lastData'.items]_vars

\* C9: a mutating call without a Bearer header is answered 401, one with a
\* wrong token 403, and neither touches the list, the selection, the file,
\* the timer or a channel; GET /tasks is answered whatever the credential.
AnyPost(a) ==
  CASE last'.op = "toggle-next" -> PostToggleNext(a, Calm)
    [] last'.op = "reset" -> \E cf \in BOOLEAN : PostReset(a, cf, Calm)
    [] last'.op = "add" -> \E t \in TextInputs : PostAdd(a, t, Calm)
    [] last'.op = "toggle" -> \E id \in IdInputs : PostToggle(a, id, Calm)
    [] last'.op = "delete" -> \E id \in IdInputs : PostDelete(a, id, Calm)
    [] last'.op = "select" -> \E id \in IdInputs : PostSelect(a, id, Calm)
    [] last'.op = "move-up" -> \E id \in IdInputs : PostMoveUp(a, id, Calm)
    [] last'.op = "move-down" ->
         \E id \in IdInputs : PostMoveDown(a, id, Calm)
    [] last'.op = "edit" ->
         \E id \in IdInputs, t \in TextInputs : PostEdit(a, id, t, Calm)
    [] last'.op = "move-to-position" ->
         \E id \in IdInputs, p \in PositionInputs :
           PostMoveToPosition(a, id, p[1], p[2], Calm)
    [] OTHER -> FALSE

C9_UnauthorizedNoEffect ==
  [][/\ \A a \in {"none", "bad"} :
          (Stimulus /\ AnyPost(a)) =>
            /\ last'.status = (IF a = "none" THEN HTTP_UNAUTHORIZED
                               ELSE HTTP_FORBIDDEN)
            /\ pushes' = ZeroPushes
            /\ UNCHANGED <<lastData, selectedTaskId, tasksFile, fsEvent,
                           saveTimeout, timers, clients, chan, wire>>
     /\ \A a \in AuthInputs :
          (Stimulus /\ last'.op = "get-tasks" /\ GetTasks(a)) =>
            last'.status = (IF lastData.has THEN HTTP_OK
                            ELSE HTTP_NOT_FOUND)]_vars

\* C9 witness: a delete without credentials was answered 401 while a channel
\* was listening and the list had a task.
C9_Witness ==
  /\ last = [op |-> "delete", status |-> HTTP_UNAUTHORIZED]
  /\ OpenClients # {}
  /\ Len(lastData.items) > 0

\* C10: when updateTasks runs with a task selected and that task's id is in
\* the new list, selectedIndex is afterwards the index of that same task in
\* the new list, and the new list is sorted by order.
SortedByOrder(ts) ==
  \A i, j \in 1..Len(ts) : i < j => orderKey(ts[i]) <= orderKey(ts[j])

C10_SelectionSurvivesReorder ==
  (/\ tmPrev.id # Null
   /\ \E i \in 1..Len(tasks) : tasks[i].id = tmPrev.id) =>
     /\ selectedIndex >= 0
     /\ selectedIndex < Len(tasks)
     /\ tasks[selectedIndex + 1].id = tmPrev.id
     /\ SortedByOrder(tasks)

\* C10 witness: the task selected at index 0 is, after an update that
\* reordered the list, selected at the last index.
C10_Witness ==
  /\ tmPrev.id = 1
  /\ tmPrev.index = 0
  /\ Len(tasks) = MaxTasks
  /\ selectedIndex = MaxTasks - 1
  /\ tasks[MaxTasks].id = 1


\* ids of the controller's list
TaskIds == {tasks[i].id : i \in 1..Len(tasks)}

C12_SelectionOnDeletion ==
  (/\ tmPrev.id # Null
   /\ tasks # <<>>
   /\ tmPrev.id \notin TaskIds
   /\ Len(tasks) <= Cardinality(tmPrev.ids)) =>
     /\ selectedIndex >= 0
     /\ selectedIndex < Len(tasks)
     /\ selectedIndex = (IF tmPrev.index > Len(tasks) - 1
                         THEN Len(tasks) - 1 ELSE tmPrev.index)

\* C12 witness: the last task of a full list was selected, the update
\* dropped it and left one task fewer, and the selection is on the new last
\* index.
C12_Witness ==
  /\ tmPrev.id # Null
  /\ tmPrev.index = MaxTasks - 1
  /\ tmPrev.id \notin TaskIds
  /\ Len(tasks) = MaxTasks - 1
  /\ selectedIndex = MaxTasks - 2

\* C20: after the first non-empty list is applied, the selected task is the
\* first one not completed, or the one at index 0 when all are completed.
C20_InitialSelection ==
  (applied = 1 /\ tmPrev.index # -1 /\ tasks # <<>>) =>
    LET open == {i \in 1..Len(tasks) : ~tasks[i].completed}
    IN  IF open = {} THEN selectedIndex = 0
        ELSE /\ selectedIndex + 1 \in open
             /\ \A i \in open : selectedIndex + 1 <= i

\* isWebSocketConnected()
isWebSocketConnected ==
  manager.isConnected /\ manager.ws /\ managerEnv.socket = "open"

\* C18: whenever the TaskManager's WebSocket is connected (its open event
\* handled, no close since), the poll interval timer is not active; this
\* includes a socket that opens after the 5-second connect timeout made
\* initialize() fall back to polling.
C18_PollOnlyWithoutSocket ==
  isWebSocketConnected => ~manager.pollInterval

\* The delay the design gives the k-th consecutive reconnect, k from 0
ClaimedDelay(k) == Min(reconnectDelay * 2^k, maxReconnectDelay)

\* C13: in WSClient and in ChecklistDataSource the delay before the k-th
\* consecutive reconnect (k counted from 0 since the last successful open)
\* is min(baseDelay * 2^k, maxDelay) with baseDelay 1000 and maxDelay
\* 30000; no delay exceeds maxDelay; a successful open resets the count.
C13_ReconnectBackoff ==
  /\ wsClientEnv.k > 0 => wsClientEnv.delay = ClaimedDelay(wsClientEnv.k - 1)
  /\ dataSourceEnv.k > 0 =>
       dataSourceEnv.delay = ClaimedDelay(dataSourceEnv.k - 1)
  /\ wsClientEnv.delay <= maxReconnectDelay
  /\ dataSourceEnv.delay <= maxReconnectDelay
  /\ wsClientEnv.socket = "open" => wsClient.reconnectAttempts = 0
  /\ dataSourceEnv.socket = "open" => dataSource.reconnectAttempts = 0

\* A WSClient waits for a reconnect whose delay was capped.
C13_Witness ==
  /\ wsClientEnv.reconnect
  /\ wsClientEnv.delay = maxReconnectDelay
  /\ reconnectDelay * 2^(wsClientEnv.k - 1) > maxReconnectDelay

\* The threshold is crossed: as many reconnects as the agent allows have
\* been scheduled since the last open, the last of them has fired, and
\* the socket it created has closed.
ClientGaveUp ==
  /\ wsClientEnv.k = maxReconnectAttempts
  /\ ~wsClientEnv.reconnect
  /\ wsClientEnv.socket = "closed"
SourceGaveUp ==
  /\ dataSourceEnv.k = sourceMaxReconnectAttempts
  /\ ~dataSourceEnv.reconnect
  /\ dataSourceEnv.socket = "closed"

C15_DestroyIsTerminal ==
  wsClient.isDestroyed =>
    /\ ~wsClient.pollInterval
    /\ ~wsClientEnv.reconnect
    /\ ~wsClient.ws
    /\ wsClientEnv.socket \notin {"connecting", "open"}

\* A WSClient destroyed in the middle of its reconnects: the socket that
\* destroy() left has gone, the 1-second timer has fired and start() has
\* been called again.
C15_Witness ==
  /\ wsClient.isDestroyed
  /\ wsClientEnv.k > 0
  /\ wsClientEnv.calls > 1
  /\ ~wsClientEnv.fallback
  /\ wsClientEnv.socket = "closed"

\* C16: ChecklistDataSource.stop() is terminal: once it has returned no
\* poll timer is active, no reconnect timer is pending and no socket is
\* open, and this stays so when the close event of the socket that stop()
\* closed is handled and when the 1-second timer of start() fires.
C16_StopIsTerminal ==
  dataSourceEnv.halted =>
    /\ ~dataSource.pollInterval
    /\ ~dataSourceEnv.reconnect
    /\ dataSourceEnv.socket \notin {"connecting", "open"}

\* C17: in WSClient and in ChecklistDataSource, whenever the push channel
\* is open (its open event handled, no close since) no poll interval timer
\* is active, whatever the order of the open event, the 1-second timer,
\* errors and reconnect timers.
C17_PushStopsPull ==
  /\ wsClientEnv.socket = "open" => ~wsClient.pollInterval
  /\ dataSourceEnv.socket = "open" => ~dataSource.pollInterval

\* The socket of a WSClient opened while an answer to a poll was still
\* under way: the poll loop had been running and is stopped.
C17_Witness ==
  /\ wsClientEnv.socket = "open"
  /\ wsClientEnv.inflight # {}
  /\ ~wsClient.pollInterval
  /\ ~wsClientEnv.fallback

\* C19: the Checklist panel never replaces the snapshot it shows with one
\* whose timestamp is older than that of the snapshot it applied last.
C19_StaleSnapshotsDiscarded ==
  [][overlay'.lastUpdate >= overlay.lastUpdate]_vars

\* n calls of selectNext() in a row on a list of length len
RECURSIVE nextTimes(_, _, _)
nextTimes(i, len, n) ==
  IF n = 0 THEN i ELSE nextTimes(nextIndex(i, len), len, n - 1)

\* C21: on a non-empty list of N tasks selectNext maps index i to
\* (i+1) mod N and selectPrevious maps i to (i-1) mod N, each undoes the
\* other, and N selectNext calls in a row return to the starting index;
\* every such call sends one select call for the task now selected. On an
\* empty list both leave the index alone and send no select call.
C21_CyclicNavigation ==
  /\ [](Len(tasks) > 0 =>
          LET N == Len(tasks)
              i == selectedIndex
          IN /\ previousIndex(nextIndex(i, N), N) = i
             /\ nextIndex(previousIndex(i, N), N) = i
             /\ nextTimes(i, N, N) = i)
  /\ [][tmPrev'.index = -1 =>
          IF Len(tasks) = 0
          THEN /\ selectedIndex' = selectedIndex
               /\ selectRequest'.taskId = selectRequest.taskId
               /\ ~selectRequest'.sent
          ELSE /\ SelectNext =>
                    selectedIndex' = (selectedIndex + 1) % Len(tasks)
               /\ SelectPrevious =>
                    selectedIndex' = (selectedIndex - 1) % Len(tasks)
               /\ selectRequest'.sent
               /\ selectRequest'.taskId = tasks[selectedIndex' + 1].id]_vars

\* A selection key has just moved the selection to the last of several
\* tasks and announced it.
C21_Witness ==
  /\ tmPrev = NoSelection
  /\ Len(tasks) > 1
  /\ selectedIndex = Len(tasks) - 1
  /\ selectRequest.sent
  /\ selectRequest.taskId = tasks[Len(tasks)].id

\* A message is sent to channel c in this step.
Sent(c) == pushes'[c] > (IF Stimulus THEN 0 ELSE pushes[c])

\* C22: a message goes to a registered channel only in the step of a
\* successful mutation, of a successful select call, or of a reload after
\* a file change; the callback of a timer sends nothing; a channel that
\* connects causes a send to that channel only.
C22_BroadcastOnlyOnChange ==
  [][\A c \in Chans :
       Sent(c) =>
         \/ /\ Stimulus
            /\ last'.status = HTTP_OK
            /\ last'.op \in ImmediateOps \cup ReorderOps \cup {"select"}
         \/ /\ Stimulus
            /\ last'.op = "ws-connect"
            /\ chan[c] = "free"
            /\ \A d \in Chans \ {c} : ~Sent(d)
         \/ /\ ~Stimulus
            /\ fsEvent /\ ~fsEvent'
            /\ timers' = timers
            /\ now' = now]_vars

\* After a reorder was pushed once to ws1 its save timer has fired and
\* written the file; the watcher has not run yet.
C22_Witness ==
  /\ last.op = "move-up"
  /\ last.status = HTTP_OK
  /\ "ws1" \in clients
  /\ pushes["ws1"] = 1
  /\ timers = 0
  /\ fsEvent

C24_CloseLeadsToReconnect ==
  [][(/\ wsClientEnv.socket \in {"open", "closing", "failing"}
      /\ wsClientEnv'.socket = "closed"
      /\ ~wsClient'.reconnectTimeout
      /\ ~wsClient'.ws
      /\ ~wsClient'.pollInterval
      /\ ~wsClientEnv'.fallback) => wsClientEnv.halted]_vars

\* The requests that forceReload() sends in the current state: the
\* handler is applied to the agent with no request under way.
ClientReloadPulls ==
  clientForceReload([ClientWorld EXCEPT !.e.inflight = {}]).e.inflight
SourceReloadPulls ==
  sourceForceReload([SourceWorld EXCEPT !.e.inflight = {}]).e.inflight

\* C25: in every state of a started WSClient or ChecklistDataSource,
\* forceReload() sends exactly one pull request when the poll interval is
\* active and the push channel is not open, and sends nothing and changes
\* nothing when the push channel is open.
C25_ForcedReload ==
  /\ wsClientEnv.calls > 0 =>
       /\ (wsClient.pollInterval /\ wsClientEnv.socket # "open") =>
            ClientReloadPulls = {feed}
       /\ wsClientEnv.socket = "open" =>
            clientForceReload(ClientWorld) = ClientWorld
  /\ dataSourceEnv.calls > 0 =>
       /\ (dataSource.pollInterval /\ dataSourceEnv.socket # "open") =>
            SourceReloadPulls = {feed}
       /\ dataSourceEnv.socket = "open" =>
            sourceForceReload(SourceWorld) = SourceWorld

\* C26: when the 1-second timer of start() fires in an agent that was not
\* stopped and whose push channel has not opened, the poll loop runs
\* afterwards, and if it was not running before, one pull request has just
\* left; an agent that is started and never stopped and whose push channel
\* never opens polls from some moment on for ever; at no time is there
\* more than one poll interval timer.
C26_PullFallback ==
  /\ [](wsClientEnv.intervals <= 1 /\ dataSourceEnv.intervals <= 1)
  /\ [][/\ (/\ wsClientEnv.fallback
            /\ ~wsClientEnv'.fallback
            /\ ~wsClientEnv.halted
            /\ ~wsClientEnv.opened) =>
             /\ wsClientEnv'.intervals = 1
             /\ wsClientEnv.intervals = 0 => feed \in wsClientEnv'.inflight
        /\ (/\ dataSourceEnv.fallback
            /\ ~dataSourceEnv'.fallback
            /\ ~dataSourceEnv.halted
            /\ ~dataSourceEnv.opened) =>
             /\ dataSourceEnv'.intervals = 1
             /\ dataSourceEnv.intervals = 0 =>
                  feed \in dataSourceEnv'.inflight]_vars
  /\ (/\ [](wsClientEnv.socket # "open" /\ ~wsClientEnv.halted)
      /\ <>(wsClientEnv.calls > 0)) => <>[](wsClientEnv.intervals = 1)
  /\ (/\ [](dataSourceEnv.socket # "open" /\ ~dataSourceEnv.halted)
      /\ <>(dataSourceEnv.calls > 0)) => <>[](dataSourceEnv.intervals = 1)

\* The timer of start() has started the poll loop of a WSClient whose
\* first socket is still in its handshake, and the first pull is under way.
C26_Witness ==
  /\ wsClientEnv.calls = 1
  /\ ~wsClientEnv.fallback
  /\ ~wsClientEnv.halted
  /\ wsClientEnv.socket = "connecting"
  /\ ~wsClientEnv.opened
  /\ wsClientEnv.created = 1
  /\ wsClientEnv.k = 0
  /\ wsClientEnv.intervals = 1
  /\ wsClient.pollInterval
  /\ wsClient.connection = "polling"
  /\ wsClientEnv.inflight = {feed}

\* C27: a file-change event that finds the mirror file absent or not
\* loadable leaves lastData, selectedTaskId, the registry and every channel
\* as they were; one that finds a ChecklistData document makes lastData
\* that document (its items as they are, its ts or the clock's when it has
\* none) and pushes it once to every open channel (only sends to ws2
\* throw here); the initial load does the same with no channel yet.
C27_FailedReloadKeepsSnapshot ==
  /\ [](calls = 0 =>
          /\ lastData.has = (tasksFile.kind = "data")
          /\ lastData.items = tasksFile.items
          /\ selectedTaskId = Null
          /\ pushes = ZeroPushes)
  /\ [][(fsEvent /\ ~fsEvent') =>
          IF tasksFile.kind = "data"
          THEN /\ lastData' =
                    [has |-> TRUE, items |-> tasksFile.items,
                     ts |-> IF tasksFile.ts = 0 THEN now ELSE tasksFile.ts]
               /\ \A c \in OpenClients \ {"ws2"} : pushes'[c] = pushes[c] + 1
               /\ clients' # {} =>
                    /\ wire'.kind = "tasks_updated"
                    /\ wire'.items = tasksFile.items
                    /\ wire'.to = clients'
          ELSE UNCHANGED <<lastData, selectedTaskId, clients, wire,
                           pushes>>]_vars

\* The watcher found a file that does not parse; the snapshot loaded
\* before is still in memory and ws1, registered, received nothing.
C27_Witness ==
  /\ tasksFile.kind = "invalid"
  /\ ~fsEvent
  /\ lastData.has
  /\ Len(lastData.items) = 2
  /\ clients = {"ws1"}
  /\ pushes = ZeroPushes
  /\ last.op = "external-edit"

\* C28: when the write of the mirror file fails during a toggle, add,
\* delete, edit or reset call, the list in memory is the mutated one (a
\* done flag flipped, a task appended, a task removed, a text replaced,
\* no task done), that list is pushed once to every open channel and the
\* call is served; a debounced save, failing or not, leaves the list in
\* memory as it is; and whenever the server writes the file, the file
\* holds the list that is in memory at that moment.
WriteFailed ==
  /\ Stimulus
  /\ last'.op \in ImmediateOps
  /\ last'.status = HTTP_OK
  /\ tasksFile' # DataFile(lastData'.items, now)

MutationKept ==
  LET old == lastData.items
      new == lastData'.items
  IN  CASE last'.op \in {"toggle", "toggle-next"} ->
             \E i \in 1..Len(old) : new = [old EXCEPT ![i].done = ~@]
        [] last'.op = "add" ->
             /\ Len(new) = Len(old) + 1
             /\ Strip(SubSeq(new, 1, Len(old))) = Strip(old)
             /\ new[Len(new)].id \notin IdsOf(old)
        [] last'.op = "delete" ->
             /\ Len(new) = Len(old) - 1
             /\ IdsOf(new) \subseteq IdsOf(old)
        [] last'.op = "edit" ->
             /\ IdSeq(new) = IdSeq(old)
             /\ \E i \in 1..Len(new) : new[i].text \in SaveTexts
        [] OTHER -> \A i \in 1..Len(new) : ~new[i].done

Rejections == {HTTP_BAD_REQUEST, HTTP_NOT_FOUND}
Malformed(id, text) == id = NoId \/ Trim(text) = ""
Answered(bad, missing) ==
  /\ bad => last'.status = HTTP_BAD_REQUEST
  /\ (~bad /\ missing) => last'.status = HTTP_NOT_FOUND
  /\ (~bad /\ ~missing) => last'.status = HTTP_OK

C29_RejectedCallsNoEffect ==
  [][/\ (Stimulus /\ last'.status \in Rejections /\ AnyPost("good")) =>
          /\ pushes' = ZeroPushes
          /\ UNCHANGED <<lastData, selectedTaskId, tasksFile, fsEvent,
                         saveTimeout, timers, clients, chan, wire>>
     /\ (Stimulus /\ last'.op = "toggle-next" /\ PostToggleNext("good", Calm))
          => Answered(FALSE, \/ ~lastData.has
                             \/ \A i \in 1..Len(lastData.items) :
                                  lastData.items[i].done)
     /\ \A cf \in BOOLEAN :
          (Stimulus /\ last'.op = "reset" /\ PostReset("good", cf, Calm))
            => Answered(~cf, ~lastData.has)
     /\ \A t \in TextInputs :
          (Stimulus /\ last'.op = "add" /\ PostAdd("good", t, Calm))
            => Answered(Trim(t) = "", ~lastData.has)
     /\ \A id \in IdInputs :
          /\ (Stimulus /\ last'.op = "toggle" /\ PostToggle("good", id, Calm))
               => Answered(id = NoId, ~Present(id))
          /\ (Stimulus /\ last'.op = "delete" /\ PostDelete("good", id, Calm))
               => Answered(id = NoId, ~Present(id))
          /\ (Stimulus /\ last'.op = "move-up" /\ PostMoveUp("good", id, Calm))
               => Answered(id = NoId, ~Present(id))
          /\ (/\ Stimulus
              /\ last'.op = "move-down"
              /\ PostMoveDown("good", id, Calm))
               => Answered(id = NoId, ~Present(id))
          /\ \A t \in TextInputs :
               (Stimulus /\ last'.op = "edit" /\ PostEdit("good", id, t, Calm))
                 => Answered(Malformed(id, t), ~Present(id))
          /\ \A p \in PositionInputs :
               (/\ Stimulus
                /\ last'.op = "move-to-position"
                /\ PostMoveToPosition("good", id, p[1], p[2], Calm))
                 => Answered(id = NoId \/ ~p[1] \/ p[2] < 0, ~Present(id))]_vars

\* A task was selected, and then a delete naming an id that is not in the
\* list was answered 404: the selection and the list are still there.
C29_Witness ==
  /\ calls = 2
  /\ last = [op |-> "delete", status |-> HTTP_NOT_FOUND]
  /\ selectedTaskId # Null
  /\ lastData.has
  /\ Len(lastData.items) > 0

\* The effect of a select call that is served: the selection is `sel`,
\* one snapshot with the list as it is and the new selection went to
\* every open channel, and the list, the file and the save timer are
\* untouched.
Selected(sel) ==
  /\ last'.status = HTTP_OK
  /\ selectedTaskId' = sel
  /\ \A c \in Chans : pushes'[c] = IF c \in OpenClients THEN 1 ELSE 0
  /\ OpenClients # {} =>
       wire' = [kind |-> "snapshot", items |-> lastData.items,
                sel |-> sel, to |-> OpenClients]
  /\ UNCHANGED <<lastData, tasksFile, fsEvent, saveTimeout, timers>>

\* The effect of a select call answered NotFound.
SelectRefused ==
  /\ last'.status = HTTP_NOT_FOUND
  /\ pushes' = ZeroPushes
  /\ UNCHANGED <<selectedTaskId, lastData, tasksFile, fsEvent, saveTimeout,
                 timers, clients, wire>>

\* C30 as stated: a select call with a taskId that is in the list selects
\* it, one without a taskId clears the selection, and both push one
\* snapshot carrying the new selection to every open channel without
\* touching the list or the file; one with a taskId that is not in the
\* list is answered NotFound and leaves the selection as it was.
C30_SelectCall ==
  [][\A id \in IdInputs :
       (Stimulus /\ last'.op = "select" /\ PostSelect("good", id, Calm)) =>
         IF id = NoId THEN Selected(Null)
         ELSE IF Present(id) THEN Selected(id)
         ELSE SelectRefused]_vars

\* C30 as amended: the same while the store is loaded; while it is not
\* loaded every select call, with or without a taskId, is answered
\* NotFound, changes nothing and sends nothing.
C30_SelectCallWhenLoaded ==
  [][\A id \in IdInputs :
       (Stimulus /\ last'.op = "select" /\ PostSelect("good", id, Calm)) =>
         IF ~lastData.has THEN SelectRefused
         ELSE IF id = NoId THEN Selected(Null)
         ELSE IF Present(id) THEN Selected(id)
         ELSE SelectRefused]_vars

\* After a connection, task 2 was selected: ws1 received one snapshot
\* naming it, and the file and the list are as loaded.
C30_Witness ==
  /\ calls = 2
  /\ last = [op |-> "select", status |-> HTTP_OK]
  /\ selectedTaskId = 2
  /\ clients = {"ws1"}
  /\ pushes["ws1"] = 1
  /\ wire = [kind |-> "snapshot", items |-> FileTasks(2, FALSE),
             sel |-> 2, to |-> {"ws1"}]
  /\ lastData.items = FileTasks(2, FALSE)
  /\ tasksFile = DataFile(FileTasks(2, FALSE), 1)

\* C31: once destroy() of the TaskManager has returned, its poll interval
\* is null and its socket reference is null in every later state, also
\* after the close event of the socket that destroy() closed.
C31_TmDestroyReleases ==
  managerEnv.destroyed => (~manager.pollInterval /\ ~manager.ws)

\* C32: a file-change event handled after a successful reorder and before
\* its save timer fires leaves the reordered list in memory, so that the
\* timer writes the reordered list.
C32_ReorderSurvivesReload ==
  [][(fsEvent /\ ~fsEvent' /\ saveTimeout) =>
       /\ lastData'.items = lastData.items
       /\ saveTimeout']_vars

\* C33: handling a file-change event writes no file, arms no timer, raises
\* no further event and sends at most one message to a channel; when no
\* event and no timer is pending, the list in memory is the list in the
\* file; and from some moment on no event and no timer is pending.
C33_NoSelfWriteLoop ==
  /\ [][(fsEvent /\ ~fsEvent') =>
          /\ UNCHANGED <<tasksFile, saveTimeout, timers>>
          /\ \A c \in Chans : pushes'[c] <= pushes[c] + 1]_vars
  /\ []((~fsEvent /\ ~saveTimeout /\ lastData.has) =>
          lastData.items = tasksFile.items)
  /\ <>[](~fsEvent /\ ~saveTimeout /\ timers = 0)

\* Two calls, the last one a move-down, were followed by the timer's
\* write and by the reload it caused: nothing is pending, ws1 was sent the
\* list a second time, and file and memory hold the same list.
C33_Witness ==
  /\ calls = 2
  /\ last = [op |-> "move-down", status |-> HTTP_OK]
  /\ ~fsEvent
  /\ ~saveTimeout
  /\ timers = 0
  /\ pushes["ws1"] = 2
  /\ tasksFile = DataFile(lastData.items, now)

\* C34: from a loaded list with order = index and distinct ids, after any
\* sequence of toggle, reset, add, delete, edit, select and move calls
\* every task has order = index and the ids are distinct, and only a
\* served add or delete changes the set of ids.
C34_IndexEqualsOrder ==
  /\ [](/\ \A i \in 1..Len(lastData.items) : lastData.items[i].order = i - 1
        /\ \A i, j \in 1..Len(lastData.items) :
             lastData.items[i].id = lastData.items[j].id => i = j)
  /\ [][IdsOf(lastData'.items) # IdsOf(lastData.items) =>
          /\ last'.op \in {"add", "delete"}
          /\ last'.status = HTTP_OK
          /\ last'.op = "add" =>
               /\ IdsOf(lastData.items) \subseteq IdsOf(lastData'.items)
               /\ Len(lastData'.items) = Len(lastData.items) + 1
          /\ last'.op = "delete" =>
               /\ IdsOf(lastData'.items) \subseteq IdsOf(lastData.items)
               /\ Len(lastData'.items) = Len(lastData.items) - 1]_vars

\* The added task 3 was moved to the head of the list [1, 2]: the ids are
\* 3, 1, 2 and the order values 0, 1, 2.
C34_Witness ==
  /\ last = [op |-> "move-to-position", status |-> HTTP_OK]
  /\ IdSeq(lastData.items) = <<3, 1, 2>>
  /\ Orders(lastData.items) = <<0, 1, 2>>

\* C35: for every non-empty list the store holds and every id in it,
\* moveUp(id) followed by moveDown(id), and moveDown(id) followed by
\* moveUp(id), give back the list with its order values, also when the
\* task is first or last and when it is the only task.
C35_MovesAreInverses ==
  \A id \in IdsOf(lastData.items) :
    /\ moveDownItems(moveUpItems(lastData.items, id), id) = lastData.items
    /\ moveUpItems(moveDownItems(lastData.items, id), id) = lastData.items
    /\ Len(lastData.items) = 1 =>
         /\ moveUpItems(lastData.items, id) = lastData.items
         /\ moveDownItems(lastData.items, id) = lastData.items
         /\ ~moveFails(id)

\* C36: after any sequence of snapshot updates and of selectNext,
\* selectPrevious and selectNextIncomplete calls, selectedIndex is 0 when
\* the list is empty and otherwise 0 <= selectedIndex < tasks.length, so
\* that getSelectedTask() is null only when the list is empty.
C36_SelectionInBounds ==
  /\ Len(tasks) = 0 => selectedIndex = 0
  /\ Len(tasks) > 0 =>
       /\ 0 <= selectedIndex
       /\ selectedIndex < Len(tasks)
       /\ selectedId(tasks, selectedIndex) # Null

\* The last task of a list of MaxTasks was selected; the next snapshot has
\* one task, another one: the index is clamped to 0.
C36_Witness ==
  /\ applied = 2
  /\ tmPrev.index = MaxTasks - 1
  /\ tmPrev.id # Null
  /\ Len(tasks) = 1
  /\ tasks[1].id # tmPrev.id
  /\ selectedIndex = 0


\* C37: no data after destroy: once WSClient.destroy() or
\* ChecklistDataSource.stop() has returned, the data callback onData is
\* never invoked again (the panel's stored payload stays as it is), also
\* when a poll request that was under way completes afterwards or a
\* socket message is delivered afterwards.
C37_NoDataAfterDestroy ==
  [][/\ wsClientEnv.halted => overlay' = overlay
     /\ dataSourceEnv.halted => overlay' = overlay]_vars


\* C38: snapshot on connect matches server state: when a channel connects
\* while data is loaded, the server at once sends one snapshot to that
\* channel only, carrying the server's current task list and the server's
\* current selectedTaskId; when no data is loaded nothing is sent; the
\* channel is registered in both cases.
C38_ConnectSnapshot ==
  [][(calls' = calls + 1 /\ last'.op = "ws-connect") =>
       /\ "ws1" \in clients'
       /\ IF lastData.has
          THEN /\ pushes' = [ZeroPushes EXCEPT !["ws1"] = 1]
               /\ wire' = [kind |-> "snapshot", items |-> lastData.items,
                           sel |-> selectedTaskId, to |-> {"ws1"}]
          ELSE /\ pushes' = ZeroPushes
               /\ wire' = wire]_vars


\* C39: shutdown flushes pending saves: when stop() is called while a
\* debounced save is pending, the timer is cancelled and the list in
\* memory is written to the mirror file before stop() returns (a write
\* that fails leaves the file as it was or torn); when stop() returns no
\* save timer is pending, no channel is open and the registry is empty;
\* stop() without a pending save writes nothing.
C39_StopFlushesPendingSave ==
  [][\A e \in Disk :
       (last.op # "stop" /\ last'.op = "stop" /\ Stop(e)) =>
         /\ ~saveTimeout'
         /\ timers' = 0
         /\ clients' = {}
         /\ \A c \in Chans : chan'[c] # "open"
         /\ lastData'.has = lastData.has
         /\ lastData'.items = lastData.items
         /\ tasksFile' =
              IF ~saveTimeout THEN tasksFile
              ELSE CASE e.outcome = "written" ->
                          DataFile(lastData.items, now)
                     [] e.outcome = "torn" -> InvalidFile
                     [] OTHER -> tasksFile]_vars

\* The server was stopped with a channel open and the save of a move-up
\* pending: the file holds the reordered list and the channel is closing.
C39_Witness ==
  /\ last.op = "stop"
  /\ IdSeq(lastData.items) = <<2, 1>>
  /\ tasksFile = DataFile(lastData.items, now)
  /\ chan["ws1"] = "closing"
  /\ clients = {}
  /\ ~saveTimeout
  /\ timers = 0

====
